---- MODULE Spec2Model ----
(***************************************************************************)
(* Docs-Navigator: the document-analytics kernel of src/src/server/        *)
(* server.py and src/document_intelligence.py.                             *)
(*                                                                         *)
(* Text is modelled character by character: a Python str is a TLA+ string, *)
(* s[a:b] is Slice(s, a, b), offsets are 0-based as in the source.         *)
(*                                                                         *)
(* State: fs is the file system in the order rglob enumerates it, call is  *)
(* the tool call being served (name and arguments), outcome tells whether  *)
(* it returned or let an exception escape, result is the value returned.   *)
(***************************************************************************)
EXTENDS Integers, Sequences, FiniteSets, TLC

VARIABLES fs, call, result, outcome

vars == <<fs, call, result, outcome>>

(***************************************************************************)
(* Python str primitives                                                   *)
(***************************************************************************)

\* s[a:b], 0-based, end exclusive, clipped to the string as Python clips it
Slice(s, a, b) ==
    LET lo == IF a < 0 THEN 0 ELSE a
        hi == IF b > Len(s) THEN Len(s) ELSE b
    IN  IF hi <= lo THEN "" ELSE SubSeq(s, lo + 1, hi)

\* s[i], 0-based
CharAt(s, i) == SubSeq(s, i + 1, i + 1)

\* the characters str.strip(), str.split() and the regex class \s treat as space
Whitespace == {" ", "\n", "\t"}

UpperLetters == {"A","B","C","D","E","F","G","H","I","J","K","L","M",
                 "N","O","P","Q","R","S","T","U","V","W","X","Y","Z"}

LowerLetters == {"a","b","c","d","e","f","g","h","i","j","k","l","m",
                 "n","o","p","q","r","s","t","u","v","w","x","y","z"}

Digits == {"0","1","2","3","4","5","6","7","8","9"}

\* the regex class \w
WordChars == UpperLetters \cup LowerLetters \cup Digits \cup {"_"}

LowerOf == [c \in UpperLetters |->
    CASE c = "A" -> "a" [] c = "B" -> "b" [] c = "C" -> "c" [] c = "D" -> "d"
      [] c = "E" -> "e" [] c = "F" -> "f" [] c = "G" -> "g" [] c = "H" -> "h"
      [] c = "I" -> "i" [] c = "J" -> "j" [] c = "K" -> "k" [] c = "L" -> "l"
      [] c = "M" -> "m" [] c = "N" -> "n" [] c = "O" -> "o" [] c = "P" -> "p"
      [] c = "Q" -> "q" [] c = "R" -> "r" [] c = "S" -> "s" [] c = "T" -> "t"
      [] c = "U" -> "u" [] c = "V" -> "v" [] c = "W" -> "w" [] c = "X" -> "x"
      [] c = "Y" -> "y" [] c = "Z" -> "z"]

\* a while loop: Step is applied to the state x0 until Done holds, at most
\* 2^depth times; the halving keeps the nesting of the evaluation shallow
Iterate(x0, Step(_), Done(_), depth) ==
    LET RECURSIVE Pow(_, _)
        Pow(k, x) ==
            IF Done(x) THEN x
            ELSE IF k = 0 THEN Step(x)
            ELSE LET y == Pow(k - 1, x)
                 IN  IF Done(y) THEN y ELSE Pow(k - 1, y)
    IN  Pow(depth, x0)

RECURSIVE Log2(_)
\* the least k with 2^k > n
Log2(n) == IF n < 1 THEN 0 ELSE 1 + Log2(n \div 2)

\* a loop over the offsets of s, a state with fields i (the offset) and the rest
ScanString(s, x0, Step(_)) ==
    Iterate(x0, Step, LAMBDA x : x.i >= Len(s), Log2(Len(s)))

\* str.lower()
Lower(s) ==
    ScanString(s, [i |-> 0, out |-> ""],
               LAMBDA x : LET c == CharAt(s, x.i)
                          IN  [i |-> x.i + 1,
                               out |-> x.out \o (IF c \in UpperLetters THEN LowerOf[c]
                                                 ELSE c)]).out

RECURSIVE LStripChars(_, _)
LStripChars(s, chars) ==
    IF Len(s) > 0 /\ CharAt(s, 0) \in chars
    THEN LStripChars(Slice(s, 1, Len(s)), chars)
    ELSE s

RECURSIVE RStripChars(_, _)
RStripChars(s, chars) ==
    IF Len(s) > 0 /\ CharAt(s, Len(s) - 1) \in chars
    THEN RStripChars(Slice(s, 0, Len(s) - 1), chars)
    ELSE s

\* str.strip()
Strip(s) == RStripChars(LStripChars(s, Whitespace), Whitespace)

\* str.strip(chars)
StripChars(s, chars) == RStripChars(LStripChars(s, chars), chars)

\* str.startswith(p)
StartsWith(s, p) == Len(s) >= Len(p) /\ Slice(s, 0, Len(p)) = p

\* str.endswith(p)
EndsWith(s, p) == Len(s) >= Len(p) /\ Slice(s, Len(s) - Len(p), Len(s)) = p

\* whether sub occurs in s at offset i
MatchAt(s, sub, i) == i + Len(sub) <= Len(s) /\ Slice(s, i, i + Len(sub)) = sub

\* str.find(sub, start): the first offset >= start where sub occurs, else -1
Find(s, sub, start) ==
    LET hits == {i \in start..(Len(s) - Len(sub)) : MatchAt(s, sub, i)}
    IN  IF hits = {} THEN -1 ELSE CHOOSE i \in hits : \A j \in hits : i <= j

\* sub in s
Contains(s, sub) == Find(s, sub, 0) # -1

\* str.count(sub) for a non-empty sub: non-overlapping occurrences
Count(s, sub) ==
    ScanString(s, [i |-> 0, n |-> 0],
               LAMBDA x : LET pos == Find(s, sub, x.i)
                          IN  IF pos = -1 THEN [i |-> Len(s), n |-> x.n]
                              ELSE [i |-> pos + Len(sub), n |-> x.n + 1]).n

\* str.split(sep) for a one-character sep
SplitChar(s, sep) ==
    LET x == ScanString(s, [i |-> 0, start |-> 0, out |-> <<>>],
                 LAMBDA y : IF CharAt(s, y.i) = sep
                            THEN [i |-> y.i + 1, start |-> y.i + 1,
                                  out |-> Append(y.out, Slice(s, y.start, y.i))]
                            ELSE [y EXCEPT !.i = y.i + 1])
    IN  Append(x.out, Slice(s, x.start, Len(s)))

\* str.split(): the maximal runs of non-space characters
SplitWs(s) ==
    LET x == ScanString(s, [i |-> 0, start |-> 0, out |-> <<>>],
                 LAMBDA y : IF CharAt(s, y.i) \in Whitespace
                            THEN [i |-> y.i + 1, start |-> y.i + 1,
                                  out |-> IF y.start < y.i
                                          THEN Append(y.out, Slice(s, y.start, y.i))
                                          ELSE y.out]
                            ELSE [y EXCEPT !.i = y.i + 1])
    IN  IF x.start < Len(s) THEN Append(x.out, Slice(s, x.start, Len(s))) ELSE x.out

RECURSIVE Join(_, _)
\* sep.join(parts)
Join(sep, parts) ==
    IF Len(parts) = 0 THEN ""
    ELSE IF Len(parts) = 1 THEN parts[1]
    ELSE parts[1] \o sep \o Join(sep, Tail(parts))

\* str.replace(a, b) for a one-character a
ReplaceChar(s, a, b) ==
    ScanString(s, [i |-> 0, out |-> ""],
               LAMBDA x : [i |-> x.i + 1,
                           out |-> x.out \o (IF CharAt(s, x.i) = a THEN b
                                             ELSE CharAt(s, x.i))]).out

DigitOf == <<"0","1","2","3","4","5","6","7","8","9">>

RECURSIVE IntStr(_)
\* str(n) for an int n >= 0
IntStr(n) ==
    IF n < 10 THEN DigitOf[n + 1]
    ELSE IntStr(n \div 10) \o DigitOf[(n % 10) + 1]

\* lst[a:b] for a Python list, 0-based, clipped
ListSlice(lst, a, b) ==
    LET hi == IF b > Len(lst) THEN Len(lst) ELSE b
    IN  IF hi <= a THEN <<>> ELSE SubSeq(lst, a + 1, hi)

RECURSIVE RunEnd(_, _, _)
\* the offset after the maximal run of characters of chars that starts at i
RunEnd(s, i, chars) ==
    IF i < Len(s) /\ CharAt(s, i) \in chars THEN RunEnd(s, i + 1, chars) ELSE i

\* re.sub: the text scanned left to right; where MatchEnd(s, i) is not -1 the
\* pattern matches s[i:MatchEnd(s, i)], which Repl(s, i, e) replaces, and the
\* scan goes on after the match (the patterns used match no empty string)
ReSub(s, MatchEnd(_, _), Repl(_, _, _)) ==
    ScanString(s, [i |-> 0, out |-> ""],
               LAMBDA x : LET e == MatchEnd(s, x.i)
                          IN  IF e = -1
                              THEN [i |-> x.i + 1, out |-> x.out \o CharAt(s, x.i)]
                              ELSE [i |-> e, out |-> x.out \o Repl(s, x.i, e)]).out

\* re.split: the pieces of the text between the matches of the pattern
ReSplit(s, MatchEnd(_, _)) ==
    LET x == ScanString(s, [i |-> 0, start |-> 0, out |-> <<>>],
                 LAMBDA y : LET e == MatchEnd(s, y.i)
                            IN  IF e = -1 THEN [y EXCEPT !.i = y.i + 1]
                                ELSE [i |-> e, start |-> e,
                                      out |-> Append(y.out, Slice(s, y.start, y.i))])
    IN  Append(x.out, Slice(s, x.start, Len(s)))

\* re.findall for a pattern without groups: the matches, left to right
ReFindAll(s, MatchEnd(_, _)) ==
    ScanString(s, [i |-> 0, out |-> <<>>],
               LAMBDA x : LET e == MatchEnd(s, x.i)
                          IN  IF e = -1 THEN [x EXCEPT !.i = x.i + 1]
                              ELSE [i |-> e, out |-> Append(x.out, Slice(s, x.i, e))]).out

(***************************************************************************)
(* Section extraction (server.py)                                          *)
(***************************************************************************)

\* one entry of the headers list built by the first pass over the lines
HeaderOf(line, i) ==
    LET stripped == Strip(line)
        rest     == LStripChars(stripped, {"#"})
    IN  [title       |-> stripped,
         clean_title |-> Strip(rest),
         level       |-> Len(stripped) - Len(rest),
         line_index  |-> i]

\* the first pass of both extractors: every line whose stripped form starts with '#'
ParseHeaders(lines) ==
    LET RECURSIVE HeadersFrom(_)
        HeadersFrom(i) ==
            IF i >= Len(lines) THEN <<>>
            ELSE (IF StartsWith(Strip(lines[i + 1]), "#")
                  THEN <<HeaderOf(lines[i + 1], i)>> ELSE <<>>)
                 \o HeadersFrom(i + 1)
    IN  HeadersFrom(0)

\* HierEndLine stopping only at a strictly shallower header
HierEndLine_SkipsSameLevel(headers, i, nlines) ==
    LET RECURSIVE EndFrom(_)
        EndFrom(j) ==
            IF j > Len(headers) THEN nlines
            ELSE IF headers[j].level < headers[i].level THEN headers[j].line_index
            ELSE EndFrom(j + 1)
    IN  EndFrom(i + 1)

\* end_line of header i (1-based in the model) in _extract_hierarchical_sections
HierEndLine(headers, i, nlines) ==
    LET RECURSIVE EndFrom(_)
        EndFrom(j) ==
            IF j > Len(headers) THEN nlines
            ELSE IF headers[j].level <= headers[i].level THEN headers[j].line_index
            ELSE EndFrom(j + 1)
    IN  EndFrom(i + 1)

\* one dict appended by _extract_hierarchical_sections
HierSection(lines, headers, i) ==
    LET header          == headers[i]
        start_line      == header.line_index
        end_line        == HierEndLine(headers, i, Len(lines))
        section_content == Strip(Join("\n", ListSlice(lines, start_line, end_line)))
        clean_content   ==
            IF StartsWith(section_content, "#")
            THEN Strip(Join("\n", Tail(SplitChar(section_content, "\n"))))
            ELSE section_content
    IN  [title   |-> header.title,
         content |-> clean_content,
         level   |-> header.level,
         includes_subsections |->
             \E k \in (i + 1)..Len(headers) :
                 /\ headers[k].line_index < end_line
                 /\ headers[k].level > header.level]

_extract_hierarchical_sections(content) ==
    LET lines   == SplitChar(content, "\n")
        headers == ParseHeaders(lines)
    IN  IF Len(headers) = 0
        THEN <<[title |-> "Document Content", content |-> Strip(content)]>>
        ELSE [i \in 1..Len(headers) |-> HierSection(lines, headers, i)]

\* FlatEndLine stopping at the next header of any level
FlatEndLine_NextHeader(headers, i, nlines) ==
    IF i + 1 > Len(headers) THEN nlines ELSE headers[i + 1].line_index

\* end_line of header i (1-based in the model) in _extract_sections
FlatEndLine(headers, i, nlines) ==
    LET RECURSIVE EndFrom(_)
        EndFrom(j) ==
            IF j > Len(headers) THEN nlines
            ELSE IF headers[j].level <= headers[i].level THEN headers[j].line_index
            ELSE EndFrom(j + 1)
    IN  EndFrom(i + 1)

\* one dict appended by _extract_sections
FlatSection(lines, headers, i) ==
    LET header     == headers[i]
        start_line == header.line_index + 1
        end_line   == FlatEndLine(headers, i, Len(lines))
    IN  [title   |-> header.title,
         content |-> Strip(Join("\n", ListSlice(lines, start_line, end_line))),
         level   |-> header.level]

_extract_sections(content) ==
    LET lines   == SplitChar(content, "\n")
        headers == ParseHeaders(lines)
    IN  IF Len(headers) = 0
        THEN <<[title |-> "Document Content", content |-> Strip(content)]>>
        ELSE [i \in 1..Len(headers) |-> FlatSection(lines, headers, i)]

\* _extract_headers: level, title and 1-based line number of every header line
_extract_headers(content) ==
    LET hs == ParseHeaders(SplitChar(content, "\n"))
    IN  [i \in 1..Len(hs) |->
            [level |-> hs[i].level, title |-> hs[i].clean_title,
             line |-> hs[i].line_index + 1]]

(***************************************************************************)
(* The file system and path checks (pathlib)                               *)
(*                                                                         *)
(* A path is the sequence of its components, "/" first when absolute.      *)
(* The modelled file system holds regular files and the directories above  *)
(* them, and no symbolic links, so resolve() only folds "." and "..".      *)
(***************************************************************************)

DOCS_ROOT == <<"/", "srv", "docs">>

\* DOCS_ROOT / relative_path: an absolute right operand replaces the left one
PathJoin(root, rel) ==
    IF Len(rel) > 0 /\ rel[1] = "/" THEN rel ELSE root \o rel

\* Path.resolve()
Resolve(p) ==
    LET RECURSIVE ResolveFrom(_, _)
        ResolveFrom(done, rest) ==
            IF Len(rest) = 0 THEN done
            ELSE IF rest[1] = "." THEN ResolveFrom(done, Tail(rest))
            ELSE IF rest[1] = ".."
                 THEN ResolveFrom(IF Len(done) > 1 THEN SubSeq(done, 1, Len(done) - 1)
                                  ELSE done, Tail(rest))
            ELSE ResolveFrom(Append(done, rest[1]), Tail(rest))
    IN  ResolveFrom(<<>>, p)

\* Path.parents: every proper ancestor
Parents(p) == {SubSeq(p, 1, k) : k \in 1..(Len(p) - 1)}

\* Path.parent
Parent(p) == IF Len(p) > 1 THEN SubSeq(p, 1, Len(p) - 1) ELSE p

\* Path.is_file()
IsFile(p) == \E k \in 1..Len(fs) : fs[k].path = p

\* Path.exists(): a file, or a directory above a file
Exists(p) == IsFile(p) \/ \E k \in 1..Len(fs) : p \in Parents(fs[k].path)

\* the guard "DOCS_ROOT not in path.parents and DOCS_ROOT != path.parent"
EscapesRoot(path) == DOCS_ROOT \notin Parents(path) /\ DOCS_ROOT # Parent(path)

FileAt(p) == fs[CHOOSE k \in 1..Len(fs) : fs[k].path = p]

\* Path.suffix.lower()
Suffix(p) ==
    LET name == p[Len(p)]
        RECURSIVE RFindDot(_)
        RFindDot(i) ==
            IF i < 0 THEN -1 ELSE IF CharAt(name, i) = "." THEN i ELSE RFindDot(i - 1)
        dot  == RFindDot(Len(name) - 1)
    IN  IF dot <= 0 \/ dot = Len(name) - 1 THEN "" ELSE Lower(Slice(name, dot, Len(name)))

\* the extensions _iter_docs accepts when neither PyPDF2 nor an OCR backend is installed
TextExts == {".md", ".txt", ".rst"}

\* _iter_docs: the files under DOCS_ROOT with an accepted extension, in rglob order
_iter_docs ==
    SelectSeq(fs, LAMBDA f : DOCS_ROOT \in Parents(f.path) /\ Suffix(f.path) \in TextExts)

\* str(path.relative_to(DOCS_ROOT))
RelativeTo(p) == Join("/", SubSeq(p, Len(DOCS_ROOT) + 1, Len(p)))

\* _read_file, text branch: read_text raises OSError when the file cannot be read
\* (a directory, a file without read permission, a file removed since it was listed)
_read_file(p) ==
    IF IsFile(p) /\ FileAt(p).readable
    THEN [ok |-> TRUE, text |-> FileAt(p).text]
    ELSE [ok |-> FALSE, text |-> ""]

\* the relative path as the caller wrote it
PathStr(rel) ==
    IF Len(rel) > 0 /\ rel[1] = "/" THEN "/" \o Join("/", Tail(rel)) ELSE Join("/", rel)

\* a function that returns v
Returned(v) == [raised |-> FALSE, value |-> v]

\* a function that lets the exception of a failed read escape
Raised == [raised |-> TRUE, value |-> <<>>]

\* available_sections[:10]
AvailableLimit == 10

(***************************************************************************)
(* extract_section (server.py)                                             *)
(***************************************************************************)

\* section['title'].lstrip('#').strip()
CleanTitle(section) == Strip(LStripChars(section.title, {"#"}))

\* the matching loop, with the mistake of testing one direction only
SectionMatches_RequestInHeading(section, section_title) ==
    Contains(Lower(CleanTitle(section)), Lower(section_title))

\* the matching loop: either title contains the other, case-folded
SectionMatches(section, section_title) ==
    LET section_title_lower == Lower(section_title)
        section_title_clean == Lower(CleanTitle(section))
    IN  \/ Contains(section_title_clean, section_title_lower)
        \/ Contains(section_title_lower, section_title_clean)

\* the per-section dict of a multiple match
SectionInfo(section) ==
    LET base == [section_title |-> CleanTitle(section),
                 content       |-> Strip(section.content),
                 word_count    |-> IntStr(Len(SplitWs(section.content)))]
        lvl  == IF "level" \in DOMAIN section
                THEN base @@ [header_level |-> section.level] ELSE base
    IN  IF "includes_subsections" \in DOMAIN section
        THEN lvl @@ [includes_subsections |-> section.includes_subsections] ELSE lvl

\* the value extract_section returns
extract_section(relative_path, section_title, include_subsections) ==
    LET path == Resolve(PathJoin(DOCS_ROOT, relative_path))
    IN
    IF ~Exists(path) \/ ~IsFile(path)
    THEN Returned([error |-> "Document not found: " \o PathStr(relative_path)])
    ELSE IF EscapesRoot(path)
    THEN Returned([error |-> "Access denied: path escapes docs root."])
    ELSE IF ~_read_file(path).ok THEN Raised
    ELSE
    Returned(
    LET content  == _read_file(path).text
        sections == IF include_subsections
                    THEN _extract_hierarchical_sections(content)
                    ELSE _extract_sections(content)
        matching_sections ==
            SelectSeq(sections, LAMBDA sec : SectionMatches(sec, section_title))
        mode == IF include_subsections THEN "hierarchical" ELSE "flat"
    IN
    IF Len(matching_sections) = 0
    THEN LET available_sections ==
                 SelectSeq(sections, LAMBDA sec : Strip(sec.content) # "")
         IN  [error |-> "Section '" \o section_title \o "' not found",
              available_sections |->
                  [k \in 1..Len(ListSlice(available_sections, 0, AvailableLimit)) |->
                      CleanTitle(available_sections[k])],
              total_sections |-> IntStr(Len(available_sections))]
    ELSE IF Len(matching_sections) = 1
    THEN SectionInfo(matching_sections[1])
         @@ [document |-> relative_path, match_type |-> "single",
             extraction_mode |-> mode]
    ELSE [document |-> relative_path,
          match_type |-> "multiple",
          matching_sections |->
              [k \in 1..Len(matching_sections) |-> SectionInfo(matching_sections[k])],
          total_matches |-> IntStr(Len(matching_sections)),
          extraction_mode |-> mode])

(***************************************************************************)
(* Specification SpecSections: one markdown file, every text of at most    *)
(* MaxLines lines drawn from SectionLinePool; the extractors and           *)
(* extract_section are applied to it.                                      *)
(***************************************************************************)

MaxLines == 4

SectionLinePool == {"# A", "## B", "### C", "x", " y ", ""}

RECURSIVE SeqsUpTo(_, _)
\* every sequence of at most n elements of S
SeqsUpTo(S, n) ==
    IF n = 0 THEN {<<>>}
    ELSE LET shorter == SeqsUpTo(S, n - 1)
         IN  shorter \cup {Append(q, x) : q \in {r \in shorter : Len(r) = n - 1}, x \in S}

SectionDocs == {Join("\n", ls) : ls \in SeqsUpTo(SectionLinePool, MaxLines) \ {<<>>}}

SectionTitles == {"A", "b", "zz", "ab"}

NoCall == [op |-> "none"]

InitSections ==
    /\ fs \in {<<[path |-> DOCS_ROOT \o <<"a.md">>, text |-> t, readable |-> TRUE]>> :
                 t \in SectionDocs}
    /\ call = NoCall
    /\ result = <<>>
    /\ outcome = "none"

\* the server answers one request at a time: a call is taken when none is pending
Idle == call = NoCall

\* the call ends with r: its value is returned, or its exception escapes
Finish(r) ==
    /\ result' = r.value
    /\ outcome' = IF r.raised THEN "raised" ELSE "returned"

\* the pending call's result has been sent back
Return ==
    /\ call # NoCall
    /\ call' = NoCall
    /\ result' = <<>>
    /\ outcome' = "none"
    /\ UNCHANGED fs

\* _extract_sections applied to the file's text
ExtractSections ==
    /\ Idle
    /\ call' = [op |-> "_extract_sections", content |-> fs[1].text]
    /\ Finish(Returned(_extract_sections(fs[1].text)))
    /\ UNCHANGED fs

\* _extract_hierarchical_sections applied to the file's text
ExtractHierarchicalSections ==
    /\ Idle
    /\ call' = [op |-> "_extract_hierarchical_sections", content |-> fs[1].text]
    /\ Finish(Returned(_extract_hierarchical_sections(fs[1].text)))
    /\ UNCHANGED fs

\* the tool extract_section
ExtractSection ==
    \E title \in SectionTitles, inc \in BOOLEAN :
        /\ Idle
        /\ call' = [op |-> "extract_section", relative_path |-> <<"a.md">>,
                    section_title |-> title, include_subsections |-> inc]
        /\ Finish(extract_section(<<"a.md">>, title, inc))
        /\ UNCHANGED fs

NextSections ==
    ExtractSections \/ ExtractHierarchicalSections \/ ExtractSection \/ Return

SpecSections == InitSections /\ [][NextSections]_vars

(***************************************************************************)
(* Claims about section extraction                                         *)
(***************************************************************************)

\* the lines of the text the pending extractor call was given
CallLines == SplitChar(call.content, "\n")

CallHeaders == ParseHeaders(CallLines)

\* the line index of the first header after header i, of any level, else the line count
NextHeaderLine(i) ==
    IF i < Len(CallHeaders) THEN CallHeaders[i + 1].line_index ELSE Len(CallLines)

\* the text that lies directly under header i: up to the next header of any level
OwnText(i) ==
    Strip(Join("\n", ListSlice(CallLines, CallHeaders[i].line_index + 1, NextHeaderLine(i))))

\* whether a line of the text s is a header line deeper than lvl
HasDeeperHeaderLine(s, lvl) ==
    LET ls == SplitChar(s, "\n")
    IN  \E k \in 1..Len(ls) :
            StartsWith(Strip(ls[k]), "#") /\ HeaderOf(ls[k], 0).level > lvl

\* C2: the content of every flat section holds no header line of a deeper level
\* and none of the text under a nested header, that is, it is exactly the text
\* between its header and the next header of any level.
C2_FlatExcludesNested ==
    (call.op = "_extract_sections" /\ Len(CallHeaders) > 0) =>
        \A i \in 1..Len(result) :
            /\ ~HasDeeperHeaderLine(result[i].content, result[i].level)
            /\ result[i].content = OwnText(i)

RECURSIVE NonBlankStripped(_)
\* the non-blank lines of a list of lines, each stripped
NonBlankStripped(ls) ==
    IF Len(ls) = 0 THEN <<>>
    ELSE (IF Strip(ls[1]) = "" THEN <<>> ELSE <<Strip(ls[1])>>)
         \o NonBlankStripped(Tail(ls))

RECURSIVE ConcatContents(_)
\* the lines of the contents of a list of sections, in order
ConcatContents(sections) ==
    IF Len(sections) = 0 THEN <<>>
    ELSE SplitChar(sections[1].content, "\n") \o ConcatContents(Tail(sections))

\* the body of the text: its lines that are no header lines
BodyLines == SelectSeq(CallLines, LAMBDA l : ~StartsWith(Strip(l), "#"))

\* C3: for a text with a header, the flat contents concatenated in order are the
\* body without the header lines: every non-header line once, none missing.
C3_FlatPartition ==
    (call.op = "_extract_sections" /\ Len(CallHeaders) > 0) =>
        NonBlankStripped(ConcatContents(result)) = NonBlankStripped(BodyLines)

\* the line where the span of header i must end: the first later header of the
\* same or a shallower level, else the end of the text
SpanEnd(i) ==
    LET later == {k \in (i + 1)..Len(CallHeaders) :
                     CallHeaders[k].level <= CallHeaders[i].level}
    IN  IF later = {} THEN Len(CallLines)
        ELSE CallHeaders[CHOOSE k \in later : \A m \in later : k <= m].line_index

\* the headers that lie inside the span of header i
InSpan(i) ==
    {k \in (i + 1)..Len(CallHeaders) : CallHeaders[k].line_index < SpanEnd(i)}

\* C4: the hierarchical content of header X is the text from the line after X up
\* to the first later header of level <= level(X) (or the end of the text), and
\* the hierarchical content of every header inside that span is a substring of it.
C4_HierarchicalNesting ==
    (call.op = "_extract_hierarchical_sections" /\ Len(CallHeaders) > 0) =>
        \A i \in 1..Len(result) :
            /\ result[i].content =
                   Strip(Join("\n", ListSlice(CallLines, CallHeaders[i].line_index + 1,
                                              SpanEnd(i))))
            /\ \A k \in InSpan(i) : Contains(result[i].content, result[k].content)

\* a header with a nested header that has text, closed by a later header
C4_Witness ==
    /\ call.op = "_extract_hierarchical_sections"
    /\ Len(CallHeaders) > 0
    /\ \E i \in 1..Len(result) :
           /\ SpanEnd(i) < Len(CallLines)
           /\ \E k \in InSpan(i) : result[k].content # ""

\* the sections of the document of the extract_section call in progress, in
\* the mode of the call, and those whose heading title contains the requested
\* title or is contained in it, both lowercased
CallSections ==
    IF call.include_subsections
    THEN _extract_hierarchical_sections(fs[1].text)
    ELSE _extract_sections(fs[1].text)

CallMatches ==
    SelectSeq(CallSections,
              LAMBDA sec : \/ Contains(Lower(CleanTitle(sec)), Lower(call.section_title))
                           \/ Contains(Lower(call.section_title), Lower(CleanTitle(sec))))

\* C19: extract_section matches the sections whose lowercased heading title
\* contains the lowercased requested title or is contained in it; it returns
\* the section when one matches, all the matching sections in document order
\* with their number when several match, and a not-found error only when none
\* matches.
C19_AllMatchesReturned ==
    (call.op = "extract_section" /\ outcome = "returned") =>
        LET matches == CallMatches
        IN  /\ Len(matches) = 0 <=> "error" \in DOMAIN result
            /\ Len(matches) = 1 =>
                  /\ result.match_type = "single"
                  /\ result.section_title = CleanTitle(matches[1])
                  /\ result.content = Strip(matches[1].content)
            /\ Len(matches) > 1 =>
                  /\ result.match_type = "multiple"
                  /\ result.total_matches = IntStr(Len(matches))
                  /\ Len(result.matching_sections) = Len(matches)
                  /\ \A k \in 1..Len(matches) :
                        /\ result.matching_sections[k].section_title = CleanTitle(matches[k])
                        /\ result.matching_sections[k].content = Strip(matches[k].content)

\* a requested title that contains the titles of two headings, whose sections
\* are both returned
C19_Witness ==
    /\ call.op = "extract_section"
    /\ outcome = "returned"
    /\ call.section_title = "ab"
    /\ "match_type" \in DOMAIN result
    /\ result.match_type = "multiple"
    /\ result.total_matches = "2"
    /\ result.matching_sections[1].section_title # result.matching_sections[2].section_title

\* a result of extract_section without the fields that tell the mode
ModeFree(r) ==
    LET Drop(rec, names) == [f \in DOMAIN rec \ names |-> rec[f]]
        top == Drop(r, {"includes_subsections", "extraction_mode"})
    IN  IF "matching_sections" \in DOMAIN r
        THEN [top EXCEPT !.matching_sections =
                  [k \in 1..Len(r.matching_sections) |->
                      Drop(r.matching_sections[k], {"includes_subsections"})]]
        ELSE top

MinSentenceLen == 20

\* sentence.strip()[:160]
SnippetLen == 160

\* idx - 80, idx + 80
PhraseContext == 80

(***************************************************************************)
(* search_docs (server.py)                                                 *)
(***************************************************************************)

\* the digits kept of a float's repr after the decimal point
ReprDigits == 3

RECURSIVE FracDigits(_, _, _)
\* the decimal expansion of rem/den, at most k digits, stopping when it terminates
FracDigits(rem, den, k) ==
    IF k = 0 \/ rem = 0 THEN ""
    ELSE DigitOf[((10 * rem) \div den) + 1] \o FracDigits((10 * rem) % den, den, k - 1)

\* a score is the int 100 or the float (word_matches / len(query_words)) * 80,
\* kept as the fraction num/den
ExactScore == [num |-> 100, den |-> 1, isint |-> TRUE]

PartialScore(word_matches, nwords) ==
    [num |-> word_matches * 80, den |-> nwords, isint |-> FALSE]

\* the comparison of max(matches, key=...), with the mistake of taking the lowest score
ScoreLess_Reversed(a, b) == b.num * a.den < a.num * b.den

\* x["score"] < y["score"] on the numbers, as max(matches, key=...) compares them
ScoreLess(a, b) == a.num * b.den < b.num * a.den

\* str(score): "100" for the int, the repr of the float otherwise ("80.0", "53.333")
ScoreStr(sc) ==
    IF sc.isint THEN IntStr(sc.num)
    ELSE IntStr(sc.num \div sc.den) \o "." \o
         (IF sc.num % sc.den = 0 THEN "0"
          ELSE FracDigits(sc.num % sc.den, sc.den, ReprDigits))

\* ord(c) for the characters of a score string
OrdOf(c) ==
    IF c = "." THEN 46
    ELSE 47 + (CHOOSE d \in 1..10 : DigitOf[d] = c)

\* a < b on Python strings: lexicographic by code point
StrLess(a, b) ==
    LET RECURSIVE LessFrom(_)
        LessFrom(i) ==
            IF i >= Len(b) THEN FALSE
            ELSE IF i >= Len(a) THEN TRUE
            ELSE IF CharAt(a, i) = CharAt(b, i) THEN LessFrom(i + 1)
            ELSE OrdOf(CharAt(a, i)) < OrdOf(CharAt(b, i))
    IN  LessFrom(0)

SentenceEnders == {".", "!", "?"}

\* re.split(r'[.!?]+|\n\n+', text)
SearchSplit(text) ==
    ReSplit(text, LAMBDA t, i :
        IF CharAt(t, i) \in SentenceEnders THEN RunEnd(t, i, SentenceEnders)
        ELSE IF CharAt(t, i) = "\n" /\ i + 1 < Len(t) /\ CharAt(t, i + 1) = "\n"
        THEN RunEnd(t, i, {"\n"})
        ELSE -1)

\* sum(1 for word in query_words if word in sentence_lower)
WordMatches(query_words, sentence_lower) ==
    Cardinality({k \in 1..Len(query_words) : Contains(sentence_lower, query_words[k])})

\* word_matches >= max(1, len(query_words) * 0.6)
MeetsThreshold(word_matches, nwords) ==
    word_matches >= 1 /\ 10 * word_matches >= 6 * nwords

\* the match a sentence adds to matches, as a list of zero or one element
SentenceMatch(sentence, query_words) ==
    LET word_matches == WordMatches(query_words, Lower(sentence))
        stripped     == Strip(sentence)
    IN  IF MeetsThreshold(word_matches, Len(query_words)) /\ Len(stripped) > MinSentenceLen
        THEN <<[score   |-> PartialScore(word_matches, Len(query_words)),
                snippet |-> IF Len(stripped) > SnippetLen
                            THEN Slice(stripped, 0, SnippetLen) \o "..." ELSE stripped,
                match_type |-> "words_" \o IntStr(word_matches) \o "/"
                               \o IntStr(Len(query_words))]>>
        ELSE <<>>

\* the matches list of one document: the exact phrase first, then the sentences
DocMatches(text, query_lower, query_words) ==
    LET text_lower == Lower(text)
        idx        == Find(text_lower, query_lower, 0)
        start      == IF idx - PhraseContext > 0 THEN idx - PhraseContext ELSE 0
        end        == IF Len(text) < idx + PhraseContext THEN Len(text)
                      ELSE idx + PhraseContext
    IN  (IF Contains(text_lower, query_lower)
         THEN <<[score |-> ExactScore,
                 snippet |-> ReplaceChar(Slice(text, start, end), "\n", " "),
                 match_type |-> "exact_phrase"]>>
         ELSE <<>>)
        \o LET sentences == SearchSplit(text)
               RECURSIVE MatchesFrom(_)
               MatchesFrom(k) ==
                   IF k > Len(sentences) THEN <<>>
                   ELSE SentenceMatch(sentences[k], query_words) \o MatchesFrom(k + 1)
           IN  MatchesFrom(1)

\* max(matches, key=lambda x: x["score"]): the first match of the highest score
BestMatch(matches) ==
    LET RECURSIVE BestFrom(_, _)
        BestFrom(k, best) ==
            IF k > Len(matches) THEN best
            ELSE BestFrom(k + 1, IF ScoreLess(best.score, matches[k].score)
                                 THEN matches[k] ELSE best)
    IN  BestFrom(2, matches[1])

RECURSIVE SearchResults(_, _, _)
\* the results list before sorting, for the documents in the order given
SearchResults(docs, query_lower, query_words) ==
    IF Len(docs) = 0 THEN <<>>
    ELSE LET matches == DocMatches(_read_file(docs[1].path).text, query_lower, query_words)
         IN  (IF Len(matches) > 0
              THEN LET best_match == BestMatch(matches)
                   IN  <<[path       |-> RelativeTo(docs[1].path),
                          snippet    |-> best_match.snippet,
                          score      |-> ScoreStr(best_match.score),
                          match_type |-> best_match.match_type]>>
              ELSE <<>>)
             \o SearchResults(Tail(docs), query_lower, query_words)

\* list.sort(reverse=True) with the order Less on the elements: descending and
\* stable, an element is placed after every element that is not smaller
SortDescending(items, Less(_, _)) ==
    LET RECURSIVE Insert(_, _)
        Insert(sorted, r) ==
            IF Len(sorted) = 0 THEN <<r>>
            ELSE IF Less(sorted[1], r) THEN <<r>> \o sorted
            ELSE <<sorted[1]>> \o Insert(Tail(sorted), r)
        RECURSIVE SortFrom(_, _)
        SortFrom(k, sorted) ==
            IF k > Len(items) THEN sorted
            ELSE SortFrom(k + 1, Insert(sorted, items[k]))
    IN  SortFrom(1, <<>>)

\* results.sort(key=lambda x: x["score"], reverse=True): the key is the str
SortSearchResults(results) ==
    SortDescending(results, LAMBDA a, b : StrLess(a.score, b.score))

\* search_docs over the documents docs, in that order
SearchDocsOver(docs, query, max_results) ==
    IF \E k \in 1..Len(docs) : ~_read_file(docs[k].path).ok THEN Raised
    ELSE LET query_lower == Lower(query)
             query_words == SplitWs(query_lower)
         IN  Returned(ListSlice(
                 SortSearchResults(SearchResults(docs, query_lower, query_words)),
                 0, max_results))

search_docs(query, max_results) == SearchDocsOver(_iter_docs, query, max_results)

(***************************************************************************)
(* Specification SpecSearch: up to MaxSearchDocs text files under the docs *)
(* root, each with one of the texts of SearchTexts or unreadable;          *)
(* search_docs is called with every query of SearchQueries.                *)
(***************************************************************************)

MaxSearchDocs == 3

MaxResults == 2

SearchTexts == {"Please run installer now.",
                "Run the new installer today. Bye",
                "The installer is very big indeed.",
                "Nothing here.\n\nOther text",
                "Run installer. Bye"}

SearchQueries == {"run installer", "Installer", "run big installer", ""}

SearchFileKinds ==
    [text : SearchTexts, readable : {TRUE}] \cup {[text |-> "Run it", readable |-> FALSE]}

\* the k-th file of a corpus: docs/d<k>.md
DocPath(k) == DOCS_ROOT \o <<"d" \o IntStr(k) \o ".md">>

\* the file system holding one file per element of kinds, enumerated in that order
MkFs(kinds) ==
    [k \in 1..Len(kinds) |->
        [path |-> DocPath(k), text |-> kinds[k].text, readable |-> kinds[k].readable]]

InitSearch ==
    /\ fs \in {MkFs(kinds) : kinds \in SeqsUpTo(SearchFileKinds, MaxSearchDocs) \ {<<>>}}
    /\ call = NoCall
    /\ result = <<>>
    /\ outcome = "none"

\* the tool search_docs
SearchDocs ==
    \E query \in SearchQueries, max_results \in 1..MaxResults :
        /\ Idle
        /\ call' = [op |-> "search_docs", query |-> query, max_results |-> max_results]
        /\ Finish(search_docs(query, max_results))
        /\ UNCHANGED fs

NextSearch == SearchDocs \/ Return

SpecSearch == InitSearch /\ [][NextSearch]_vars

\* the paths of the listed documents whose lowercased text holds the lowercased query
ExactDocs ==
    {RelativeTo(_iter_docs[k].path) : k \in
        {j \in 1..Len(_iter_docs) :
            Contains(Lower(_iter_docs[j].text), Lower(call.query))}}

\* C1: a document whose text holds the query as a literal phrase gets score 100
\* and match_type exact_phrase, precedes every partial-word match in the list,
\* and is not cut by the limit while a partial-word match is kept.
C1_ExactPhraseRankedFirst ==
    (call.op = "search_docs" /\ outcome = "returned") =>
        /\ \A i \in 1..Len(result) :
               result[i].path \in ExactDocs =>
                   result[i].score = "100" /\ result[i].match_type = "exact_phrase"
        /\ \A i, j \in 1..Len(result) :
               (result[i].match_type = "exact_phrase"
                /\ result[j].match_type # "exact_phrase") => i < j
        /\ (\E j \in 1..Len(result) : result[j].match_type # "exact_phrase") =>
               \A p \in ExactDocs : \E i \in 1..Len(result) : result[i].path = p

\* len(s.strip()) > 10
MinFragmentLen == 10

\* len(word) > 2
MinWordLen == 2

\* \n\s*\n\s*\n+ needs three newlines
BlankRunNewlines == 3

\* if i < 3: score += 5
FirstSentences == 3

FirstBonus == 5

\* elif i >= len(sentences) - 2: score += 3
LastSentences == 2

LastBonus == 3

\* if 10 <= word_count <= 25: score += 3
ModerateMin == 10

ModerateMax == 25

ModerateBonus == 3

\* elif 5 <= word_count <= 35: score += 1
FairMin == 5

FairMax == 35

FairBonus == 1

\* score += 2 for every keyword
KeywordBonus == 2

\* top_count: min(3, n), min(6, n), min(10, n)
ShortCount == 3

MediumCount == 6

LongCount == 10

(***************************************************************************)
(* Tokenizer and PDF normalization (document_intelligence.py)              *)
(***************************************************************************)

\* r'\n--- Page \d+ ---\n'
PageMarkerEnd(s, i) ==
    LET d == i + Len("\n--- Page ")
        e == RunEnd(s, d, Digits)
    IN  IF MatchAt(s, "\n--- Page ", i) /\ e > d /\ MatchAt(s, " ---\n", e)
        THEN e + Len(" ---\n") ELSE -1

\* r'\n--- Page \d+ \(Error reading:.*?\) ---\n': '.' matches no newline, so the
\* closing ') ---' must stand right before the first newline after the opening
ErrorMarkerEnd(s, i) ==
    LET d  == i + Len("\n--- Page ")
        e  == RunEnd(s, d, Digits)
        p  == e + Len(" (Error reading:")
        nl == Find(s, "\n", p)
    IN  IF /\ MatchAt(s, "\n--- Page ", i) /\ e > d
           /\ MatchAt(s, " (Error reading:", e)
           /\ nl # -1 /\ nl - Len(") ---") >= p
           /\ MatchAt(s, ") ---", nl - Len(") ---"))
        THEN nl + 1 ELSE -1

\* r'\n\s*\n\s*\n+': a newline whose run of whitespace holds at least three
\* newlines; the match ends after the last newline of the run
BlankRunEnd(s, i) ==
    LET e        == RunEnd(s, i, Whitespace)
        newlines == {k \in i..(e - 1) : CharAt(s, k) = "\n"}
    IN  IF CharAt(s, i) = "\n" /\ Cardinality(newlines) >= BlankRunNewlines
        THEN (CHOOSE k \in newlines : \A m \in newlines : m <= k) + 1
        ELSE -1

\* r'(\w)-\s*\n\s*(\w)': a word character, a hyphen, whitespace holding a
\* newline, a word character
BrokenWordEnd(s, i) ==
    LET e == RunEnd(s, i + 2, Whitespace)
    IN  IF /\ CharAt(s, i) \in WordChars
           /\ i + 1 < Len(s) /\ CharAt(s, i + 1) = "-"
           /\ \E k \in (i + 2)..(e - 1) : CharAt(s, k) = "\n"
           /\ e < Len(s) /\ CharAt(s, e) \in WordChars
        THEN e + 1 ELSE -1

\* r'([a-z])([A-Z])'
CamelEnd(s, i) ==
    IF CharAt(s, i) \in LowerLetters /\ i + 1 < Len(s) /\ CharAt(s, i + 1) \in UpperLetters
    THEN i + 2 ELSE -1

\* r' +'
SpacesEnd(s, i) == IF CharAt(s, i) = " " THEN RunEnd(s, i, {" "}) ELSE -1

_clean_pdf_content(content) ==
    LET c1 == ReSub(content, PageMarkerEnd, LAMBDA t, i, e : "\n\n")
        c2 == ReSub(c1, ErrorMarkerEnd, LAMBDA t, i, e : "\n\n")
        c3 == ReSub(c2, BlankRunEnd, LAMBDA t, i, e : "\n\n")
        c4 == ReSub(c3, BrokenWordEnd, LAMBDA t, i, e : CharAt(t, i) \o CharAt(t, e - 1))
        c5 == ReSub(c4, CamelEnd, LAMBDA t, i, e : CharAt(t, i) \o " " \o CharAt(t, i + 1))
        c6 == ReSub(c5, SpacesEnd, LAMBDA t, i, e : " ")
    IN  Strip(c6)

\* _split_into_sentences: re.split(r'[.!?]+', content), the pieces stripped,
\* those of more than 10 characters kept
_split_into_sentences(content) ==
    LET pieces == ReSplit(content, LAMBDA t, i :
                      IF CharAt(t, i) \in SentenceEnders
                      THEN RunEnd(t, i, SentenceEnders) ELSE -1)
        kept   == SelectSeq(pieces, LAMBDA piece : Len(Strip(piece)) > MinFragmentLen)
    IN  [k \in 1..Len(kept) |-> Strip(kept[k])]

stop_words ==
    {"the", "a", "an", "and", "or", "but", "in", "on", "at", "to", "for", "of", "with",
     "by", "is", "are", "was", "were", "be", "been", "have", "has", "had", "do", "does",
     "did", "will", "would", "could", "should", "may", "might", "can", "this", "that",
     "these", "those", "it", "its", "they", "them", "their"}

\* r'\b[a-zA-Z]+\b' at offset i: a run of letters with no word character on
\* either side of it
WordEnd(s, i) ==
    LET e == RunEnd(s, i, LowerLetters \cup UpperLetters)
    IN  IF /\ e > i
           /\ (i = 0 \/ CharAt(s, i - 1) \notin WordChars)
           /\ (e = Len(s) \/ CharAt(s, e) \notin WordChars)
        THEN e ELSE -1

\* _extract_words
_extract_words(text) ==
    SelectSeq(ReFindAll(Lower(text), WordEnd),
              LAMBDA word : word \notin stop_words /\ Len(word) > MinWordLen)

\* the numbers of query words found in the sentence-like units of text that
\* hold at least 60% of the query words, and at least one
QualifyingMatches(text, query_words) ==
    LET units == SearchSplit(text)
        found == {WordMatches(query_words, Lower(units[k])) : k \in 1..Len(units)}
    IN  {m \in found : m >= 1 /\ 5 * m >= 3 * Len(query_words)}

\* C24: when the limit cuts nothing, a document that does not hold the query as
\* a literal phrase is in the results of search_docs exactly if one of its
\* sentence-like units holds at least 60% of the query words, and its score is
\* then the highest (matched words / query words) * 80 of those units.
C24_PartialMatchIffQualifyingUnit ==
    (call.op = "search_docs" /\ outcome = "returned"
        /\ call.max_results >= Len(_iter_docs)) =>
        LET query_words == SplitWs(Lower(call.query))
        IN  \A k \in 1..Len(_iter_docs) :
                ~Contains(Lower(_iter_docs[k].text), Lower(call.query)) =>
                    LET found  == QualifyingMatches(_iter_docs[k].text, query_words)
                        listed == {i \in 1..Len(result) :
                                      result[i].path = RelativeTo(_iter_docs[k].path)}
                    IN  /\ listed # {} <=> found # {}
                        /\ \A i \in listed :
                               \E m \in found :
                                   /\ \A other \in found : other <= m
                                   /\ result[i].score
                                          = ScoreStr(PartialScore(m, Len(query_words)))

(***************************************************************************)
(* generate_smart_summary (document_intelligence.py)                       *)
(***************************************************************************)

keywords == <<"important", "key", "main", "primary", "essential", "note", "must",
              "should", "required", "configure", "setup", "install", "create", "build">>

\* Counter(words)[word]
Freq(words, word) == Cardinality({k \in 1..Len(words) : words[k] = word})

RECURSIVE SumSeq(_)
SumSeq(ns) == IF Len(ns) = 0 THEN 0 ELSE ns[1] + SumSeq(Tail(ns))

\* the score of sentence i (0-based) of n before the division: frequencies,
\* position, length and keyword bonuses
RawScore(sentence, i, n, words) ==
    LET sentence_words == _extract_words(sentence)
        word_count     == Len(sentence_words)
        lowered        == Lower(sentence)
    IN  SumSeq([k \in 1..word_count |-> Freq(words, sentence_words[k])])
        + (IF i < FirstSentences THEN FirstBonus
           ELSE IF i >= n - LastSentences THEN LastBonus ELSE 0)
        + (IF ModerateMin <= word_count /\ word_count <= ModerateMax THEN ModerateBonus
           ELSE IF FairMin <= word_count /\ word_count <= FairMax THEN FairBonus ELSE 0)
        + KeywordBonus * Cardinality({k \in 1..Len(keywords) : Contains(lowered, keywords[k])})

\* sentence_scores[i] = score / max(len(sentence_words), 1), kept as a fraction
SentenceScore(sentence, i, n, words) ==
    LET word_count == Len(_extract_words(sentence))
    IN  [index |-> i,
         num   |-> RawScore(sentence, i, n, words),
         den   |-> IF word_count > 1 THEN word_count ELSE 1]

\* top_count
TopCount(summary_type, n) ==
    LET k == IF summary_type = "short" THEN ShortCount
             ELSE IF summary_type = "long" THEN LongCount ELSE MediumCount
    IN  IF k < n THEN k ELSE n

\* the top_count best scores, left in the order of the scores
TopSentenceIndices_NotReordered(sentences, words, summary_type) ==
    LET n        == Len(sentences)
        scores   == [k \in 1..n |-> SentenceScore(sentences[k], k - 1, n, words)]
        by_score == SortDescending(scores, LAMBDA a, b : a.num * b.den < b.num * a.den)
        top      == ListSlice(by_score, 0, TopCount(summary_type, n))
    IN  [k \in 1..Len(top) |-> top[k].index]

\* top_sentence_indices: the top_count best scores, then ordered by index
TopSentenceIndices(sentences, words, summary_type) ==
    LET n        == Len(sentences)
        scores   == [k \in 1..n |-> SentenceScore(sentences[k], k - 1, n, words)]
        by_score == SortDescending(scores, LAMBDA a, b : a.num * b.den < b.num * a.den)
        top      == ListSlice(by_score, 0, TopCount(summary_type, n))
        by_index == SortDescending(top, LAMBDA a, b : a.index > b.index)
    IN  [k \in 1..Len(by_index) |-> by_index[k].index]

generate_smart_summary(content, summary_type) ==
    LET cleaned   == _clean_pdf_content(content)
        sentences == _split_into_sentences(cleaned)
    IN  IF Len(sentences) = 0 THEN "No content available for summarization."
        ELSE LET idx == TopSentenceIndices(sentences, _extract_words(cleaned), summary_type)
             IN  Join(" ", [k \in 1..Len(idx) |-> sentences[idx[k] + 1]])

(***************************************************************************)
(* semantic_search (server.py) and find_related_content                    *)
(* (document_intelligence.py). The query words are a Python set: the order *)
(* in which the set is iterated, query_words below, is not fixed by the    *)
(* code, and is an input of the call.                                       *)
(***************************************************************************)

\* pos - 60, pos + 60
SnippetRadius == 60

\* word_positions[:2]
SnippetsPerWord == 2

\* context_snippets[:3]
MaxSnippets == 3

\* snippet_length: int = 150
RelatedSnippetLen == 150

\* the elements of a list
ToSet(seq) == {seq[k] : k \in 1..Len(seq)}

\* the orders in which a set can be iterated
SetOrders(S) ==
    {q \in [1..Cardinality(S) -> S] : \A i, j \in 1..Cardinality(S) : i # j => q[i] # q[j]}

\* sorted(S) for a set of numbers
Sorted(S) ==
    LET RECURSIVE Asc(_)
        Asc(T) == IF T = {} THEN <<>>
                  ELSE LET m == CHOOSE i \in T : \A j \in T : i <= j
                       IN  <<m>> \o Asc(T \ {m})
    IN  Asc(S)

\* the snippets of one query word: around its first two occurrences, found
\* with find(word, pos + 1), so overlapping occurrences count
WordSnippets(content, content_lower, word) ==
    LET word_positions ==
            Sorted({i \in 0..(Len(content_lower) - Len(word)) :
                        MatchAt(content_lower, word, i)})
        firsts == ListSlice(word_positions, 0, SnippetsPerWord)
    IN  [k \in 1..Len(firsts) |->
            LET pos           == firsts[k]
                snippet_start == IF pos - SnippetRadius > 0 THEN pos - SnippetRadius ELSE 0
                snippet_end   == IF pos + SnippetRadius < Len(content)
                                 THEN pos + SnippetRadius ELSE Len(content)
            IN  ReplaceChar(Slice(content, snippet_start, snippet_end), "\n", " ")]

\* the body of the loop of semantic_search without the test "if score > 0":
\* every document gets a result
SemanticEntry_Unguarded(f, query_words) ==
    LET content       == _read_file(f.path).text
        content_lower == Lower(content)
        score == SumSeq([k \in 1..Len(query_words) |->
                            Count(content_lower, query_words[k]) * Len(query_words[k])])
        RECURSIVE Snippets(_)
        Snippets(k) == IF k > Len(query_words) THEN <<>>
                       ELSE WordSnippets(content, content_lower, query_words[k])
                                \o Snippets(k + 1)
    IN  <<[path             |-> RelativeTo(f.path),
           relevance_score  |-> [num |-> score, den |-> Len(SplitWs(content))],
           context_snippets |-> ListSlice(Snippets(1), 0, MaxSnippets),
           word_count       |-> Len(SplitWs(content))]>>

\* the body of the loop of semantic_search for one document: its result, or
\* <<>> when the score is 0; relevance_score is score / len(content.split()),
\* kept as a fraction
SemanticEntry(f, query_words) ==
    LET content       == _read_file(f.path).text
        content_lower == Lower(content)
        score == SumSeq([k \in 1..Len(query_words) |->
                            Count(content_lower, query_words[k]) * Len(query_words[k])])
        RECURSIVE Snippets(_)
        Snippets(k) == IF k > Len(query_words) THEN <<>>
                       ELSE WordSnippets(content, content_lower, query_words[k])
                                \o Snippets(k + 1)
    IN  IF score > 0
        THEN <<[path             |-> RelativeTo(f.path),
                relevance_score  |-> [num |-> score, den |-> Len(SplitWs(content))],
                context_snippets |-> ListSlice(Snippets(1), 0, MaxSnippets),
                word_count       |-> Len(SplitWs(content))]>>
        ELSE <<>>

\* the results of the documents docs, in that order
ConcatEntries(docs, Entry(_)) ==
    LET RECURSIVE From(_)
        From(k) == IF k > Len(docs) THEN <<>> ELSE Entry(docs[k]) \o From(k + 1)
    IN  From(1)

\* a / b < c / d
FractionLess(a, b) == a.num * b.den < b.num * a.den

\* the results left in the order of the enumeration
SortSemanticResults_Unsorted(results) == results

\* results.sort(key=lambda x: x['relevance_score'], reverse=True)
SortSemanticResults(results) ==
    SortDescending(results,
                   LAMBDA a, b : FractionLess(a.relevance_score, b.relevance_score))

\* semantic_search over the documents docs, in that order
SemanticSearchOver(docs, query_words, max_results) ==
    IF \E k \in 1..Len(docs) : ~_read_file(docs[k].path).ok THEN Raised
    ELSE Returned(ListSlice(
             SortSemanticResults(
                 ConcatEntries(docs, LAMBDA f : SemanticEntry(f, query_words))),
             0, max_results))

semantic_search(query_words, max_results) ==
    SemanticSearchOver(_iter_docs, query_words, max_results)

\* math.log(n) in units of 1/100000, for the word counts of the documents checked
LnTable == <<0, 69315, 109861, 138629, 160944, 179176, 194591, 207944, 219722,
             230259, 239790, 248491, 256495, 263906, 270805, 277259, 283321,
             289037, 294444, 299573, 304452, 309104, 313549, 317805, 321888,
             325810, 329584, 333220, 336730, 340120>>

\* _extract_snippet
_extract_snippet(content, query_words) ==
    LET content_lower == Lower(content)
        found     == {Find(content_lower, w, 0) : w \in query_words} \ {-1}
        first_pos == IF found = {} THEN Len(content)
                     ELSE CHOOSE i \in found : \A j \in found : i <= j
        half      == RelatedSnippetLen \div 2
        start     == IF first_pos - half > 0 THEN first_pos - half ELSE 0
        end       == IF start + RelatedSnippetLen < Len(content)
                     THEN start + RelatedSnippetLen ELSE Len(content)
    IN  IF first_pos = Len(content)
        THEN IF Len(content) > RelatedSnippetLen
             THEN Slice(content, 0, RelatedSnippetLen) \o "..." ELSE content
        ELSE ReplaceChar((IF start > 0 THEN "..." ELSE "")
                             \o Slice(content, start, end)
                             \o (IF end < Len(content) THEN "..." ELSE ""),
                         "\n", " ")

\* the body of the loop of find_related_content for one document: a failed
\* read is caught and the document skipped; relevance_score is
\* (sum of freq / len(content_words) * len(word)) / math.log(len(content_words) + 1),
\* kept as the sum num of freq * len(word) and the number of words
RelatedEntry(f, query_words) ==
    IF ~_read_file(f.path).ok THEN <<>>
    ELSE LET content       == _read_file(f.path).text
             content_words == _extract_words(Lower(content))
             score == SumSeq([k \in 1..Len(query_words) |->
                                 Freq(content_words, query_words[k]) * Len(query_words[k])])
         IN  IF Len(content_words) > 0 /\ score > 0
             THEN <<[path            |-> RelativeTo(f.path),
                     relevance_score |-> [num |-> score, words |-> Len(content_words)],
                     snippet         |-> _extract_snippet(content, ToSet(query_words)),
                     word_count      |-> Len(content_words)]>>
             ELSE <<>>

\* a.num / a.words / log(a.words + 1) < b.num / b.words / log(b.words + 1)
RelatedLess(a, b) ==
    a.num * b.words * LnTable[b.words + 1] < b.num * a.words * LnTable[a.words + 1]

\* results.sort(key=lambda x: x['relevance_score'], reverse=True)
SortRelatedResults(results) ==
    SortDescending(results,
                   LAMBDA a, b : RelatedLess(a.relevance_score, b.relevance_score))

find_related_content(query_words, doc_paths, max_results) ==
    ListSlice(
        SortRelatedResults(
            ConcatEntries(doc_paths, LAMBDA f : RelatedEntry(f, query_words))),
        0, max_results)

\* the tool find_related_documents over the documents docs, in that order
FindRelatedDocumentsOver(docs, query, query_words, max_results) ==
    Returned([query             |-> query,
              related_documents |-> find_related_content(query_words, docs, max_results),
              total_analyzed    |-> Len(docs),
              method            |-> "tf-idf_similarity"])

find_related_documents(query, query_words, max_results) ==
    FindRelatedDocumentsOver(_iter_docs, query, query_words, max_results)

(***************************************************************************)
(* Specification SpecRank: up to MaxRankDocs text files under the docs     *)
(* root, each with one of the texts of RankTexts or unreadable; the        *)
(* corpus-wide tools semantic_search, find_related_documents and           *)
(* search_docs are called.                                                  *)
(***************************************************************************)

MaxRankDocs == 3

MaxRankResults == 2

RankTexts == {"alpha beta", "alpha alpha\ngamma delta"}

RankQueries == {"alpha", "beta gamma", "Delta", "", " "}

RankFileKinds ==
    [text : RankTexts, readable : {TRUE}] \cup {[text |-> "alpha", readable |-> FALSE]}

InitRank ==
    /\ fs \in {MkFs(kinds) : kinds \in SeqsUpTo(RankFileKinds, MaxRankDocs) \ {<<>>}}
    /\ call = NoCall
    /\ result = <<>>
    /\ outcome = "none"

\* the tool semantic_search; query_words = set(query.lower().split()), iterated
\* in one of its orders
SemanticSearch ==
    \E query \in RankQueries, max_results \in 1..MaxRankResults :
        \E query_words \in SetOrders(ToSet(SplitWs(Lower(query)))) :
            /\ Idle
            /\ call' = [op |-> "semantic_search", query |-> query,
                        query_words |-> query_words, max_results |-> max_results]
            /\ Finish(semantic_search(query_words, max_results))
            /\ UNCHANGED fs

\* the tool find_related_documents;
\* query_words = set(self._extract_words(query.lower())), iterated in one of its orders
FindRelatedDocuments ==
    \E query \in RankQueries, max_results \in 1..MaxRankResults :
        \E query_words \in SetOrders(ToSet(_extract_words(Lower(query)))) :
            /\ Idle
            /\ call' = [op |-> "find_related_documents", query |-> query,
                        query_words |-> query_words, max_results |-> max_results]
            /\ Finish(find_related_documents(query, query_words, max_results))
            /\ UNCHANGED fs

\* the tool search_docs on the same corpus
RankSearchDocs ==
    \E query \in RankQueries, max_results \in 1..MaxRankResults :
        /\ Idle
        /\ call' = [op |-> "search_docs", query |-> query, max_results |-> max_results]
        /\ Finish(search_docs(query, max_results))
        /\ UNCHANGED fs

NextRank == SemanticSearch \/ FindRelatedDocuments \/ RankSearchDocs \/ Return

SpecRank == InitRank /\ [][NextRank]_vars

\* every order in which the documents of the corpus can be enumerated
EnumerationOrders ==
    LET docs == _iter_docs
    IN  {[k \in 1..Len(docs) |-> docs[p[k]]] : p \in SetOrders(1..Len(docs))}

\* the list the call in progress returns when the documents are enumerated as docs
\* and at most limit results are kept
RankedOver(docs, limit) ==
    IF call.op = "semantic_search"
    THEN SemanticSearchOver(docs, call.query_words, limit).value
    ELSE find_related_content(call.query_words, docs, limit)

\* the list the call in progress has returned
RankedResult ==
    IF call.op = "semantic_search" THEN result ELSE result.related_documents

\* two results have the same relevance score
SameScore(a, b) ==
    IF call.op = "semantic_search"
    THEN /\ ~FractionLess(a.relevance_score, b.relevance_score)
         /\ ~FractionLess(b.relevance_score, a.relevance_score)
    ELSE /\ ~RelatedLess(a.relevance_score, b.relevance_score)
         /\ ~RelatedLess(b.relevance_score, a.relevance_score)

\* no two documents of the corpus that match the query have the same score
NoEqualScores ==
    LET all == RankedOver(_iter_docs, Len(_iter_docs))
    IN  \A i, j \in 1..Len(all) : i # j => ~SameScore(all[i], all[j])

\* C9 as stated: the list returned by semantic_search and by
\* find_related_content is the same for every order in which the documents are
\* enumerated.
C9_SameListForEveryOrder ==
    (call.op \in {"semantic_search", "find_related_documents"} /\ outcome = "returned") =>
        \A docs \in EnumerationOrders : RankedOver(docs, call.max_results) = RankedResult

\* C9, amended: for every enumeration order the returned list has the same
\* length and the same relevance scores position by position, and it is the
\* identical list whenever no two matching documents have equal scores.
C9_SameScoresForEveryOrder ==
    (call.op \in {"semantic_search", "find_related_documents"} /\ outcome = "returned") =>
        LET mine    == RankedResult
            no_ties == NoEqualScores
        IN  \A docs \in EnumerationOrders :
                LET other == RankedOver(docs, call.max_results)
                IN  /\ Len(other) = Len(mine)
                    /\ \A k \in 1..Len(mine) : SameScore(other[k], mine[k])
                    /\ no_ties => other = mine

\* a search that puts a document enumerated later first
C9_Witness ==
    /\ call.op \in {"semantic_search", "find_related_documents"} /\ outcome = "returned"
    /\ Len(RankedResult) >= 2
    /\ NoEqualScores
    /\ RankedResult[1].path # RelativeTo(_iter_docs[1].path)
    /\ \E k \in 1..Len(RankedResult) : RankedResult[k].path = RelativeTo(_iter_docs[1].path)

\* the documents of the corpus whose read succeeds
ReadableDocs == SelectSeq(_iter_docs, LAMBDA f : _read_file(f.path).ok)

\* C6: when reading one document fails, a corpus-wide operation still
\* terminates normally and returns the results computed from the documents
\* whose read succeeded.
C6_ReadFailureConfined ==
    (call.op \in {"semantic_search", "find_related_documents", "search_docs"}
     /\ outcome # "none") =>
        /\ outcome = "returned"
        /\ call.op = "semantic_search" =>
               result = SemanticSearchOver(ReadableDocs, call.query_words,
                                           call.max_results).value
        /\ call.op = "find_related_documents" =>
               result.related_documents =
                   find_related_content(call.query_words, ReadableDocs, call.max_results)
        /\ call.op = "search_docs" =>
               result = SearchDocsOver(ReadableDocs, call.query, call.max_results).value

(***************************************************************************)
(* The tools that take a document path: read_doc, compare_documents and    *)
(* generate_table_of_contents (server.py); extract_section is above        *)
(***************************************************************************)

\* list(unique_to_doc1)[:10]
SampleLimit == 10

\* the resource read_doc
read_doc(relative_path) ==
    LET path == Resolve(PathJoin(DOCS_ROOT, relative_path))
    IN  IF ~Exists(path) \/ ~IsFile(path)
        THEN Returned("Document not found: " \o PathStr(relative_path))
        ELSE IF EscapesRoot(path) THEN Returned("Access denied: path escapes docs root.")
        ELSE IF ~_read_file(path).ok THEN Raised
        ELSE Returned(_read_file(path).text)

\* _create_outline
_create_outline(headers) ==
    LET RECURSIVE Indent(_)
        Indent(n) == IF n <= 0 THEN "" ELSE "  " \o Indent(n - 1)
    IN  [k \in 1..Len(headers) |->
            Indent(headers[k].level - 1) \o "- " \o headers[k].title]

\* max([h['level'] for h in headers]) if headers else 0
MaxDepth(headers) ==
    IF Len(headers) = 0 THEN 0
    ELSE CHOOSE m \in {headers[k].level : k \in 1..Len(headers)} :
             \A k \in 1..Len(headers) : headers[k].level <= m

\* the tool generate_table_of_contents; relative_path is <<>> for None and for ""
generate_table_of_contents(relative_path) ==
    IF Len(relative_path) > 0
    THEN LET path == Resolve(PathJoin(DOCS_ROOT, relative_path))
         IN  IF ~Exists(path)
             THEN Returned([error |-> "Document not found: " \o PathStr(relative_path)])
             ELSE IF ~_read_file(path).ok THEN Raised
             ELSE LET headers == _extract_headers(_read_file(path).text)
                  IN  Returned([document          |-> relative_path,
                                table_of_contents |-> _create_outline(headers),
                                header_count      |-> Len(headers),
                                max_depth         |-> MaxDepth(headers)])
    ELSE LET docs == _iter_docs
         IN  IF \E k \in 1..Len(docs) : ~_read_file(docs[k].path).ok THEN Raised
             ELSE Returned(
                 [type      |-> "complete_documentation_toc",
                  documents |->
                      [k \in 1..Len(docs) |->
                          LET headers == _extract_headers(_read_file(docs[k].path).text)
                          IN  [path         |-> RelativeTo(docs[k].path),
                               outline      |-> _create_outline(headers),
                               header_count |-> Len(headers),
                               max_depth    |-> MaxDepth(headers)]],
                  total_documents |-> IntStr(Len(docs))])

\* set(word.lower().strip('.,!?;:') for word in content.split())
WordSet(content) ==
    {StripChars(Lower(w), {".", ",", "!", "?", ";", ":"}) : w \in ToSet(SplitWs(content))}

\* [h['title'] for h in _extract_headers(content)]
HeaderTitles(content) ==
    LET headers == _extract_headers(content)
    IN  [k \in 1..Len(headers) |-> headers[k].title]

\* len(common_words) / len(words1.union(words2)) if the union is not empty else 0
SimilarityRatio_Smoothed(common_words, all_words) ==
    [num |-> Cardinality(common_words), den |-> Cardinality(all_words) + 1]

SimilarityRatio(common_words, all_words) ==
    IF Cardinality(all_words) > 0
    THEN [num |-> Cardinality(common_words), den |-> Cardinality(all_words)]
    ELSE [num |-> 0, den |-> 1]

\* the sets compare_documents turns into lists, empty when it does not get there
CompareSets(doc1_path, doc2_path) ==
    LET path1 == Resolve(PathJoin(DOCS_ROOT, doc1_path))
        path2 == Resolve(PathJoin(DOCS_ROOT, doc2_path))
        c1    == _read_file(path1).text
        c2    == _read_file(path2).text
        ok    == _read_file(path1).ok /\ _read_file(path2).ok
    IN  [common_headers      |-> IF ok THEN ToSet(HeaderTitles(c1)) \cap ToSet(HeaderTitles(c2))
                                 ELSE {},
         unique_headers_doc1 |-> IF ok THEN ToSet(HeaderTitles(c1)) \ ToSet(HeaderTitles(c2))
                                 ELSE {},
         unique_headers_doc2 |-> IF ok THEN ToSet(HeaderTitles(c2)) \ ToSet(HeaderTitles(c1))
                                 ELSE {},
         unique_to_doc1      |-> IF ok THEN WordSet(c1) \ WordSet(c2) ELSE {},
         unique_to_doc2      |-> IF ok THEN WordSet(c2) \ WordSet(c1) ELSE {}]

\* the orders list(...) can give these sets
ListOrders(sets) ==
    [common_headers      : SetOrders(sets.common_headers),
     unique_headers_doc1 : SetOrders(sets.unique_headers_doc1),
     unique_headers_doc2 : SetOrders(sets.unique_headers_doc2),
     unique_to_doc1      : SetOrders(sets.unique_to_doc1),
     unique_to_doc2      : SetOrders(sets.unique_to_doc2)]

\* the tool compare_documents; lists holds the sets as list(...) orders them
compare_documents(doc1_path, doc2_path, lists) ==
    LET path1 == Resolve(PathJoin(DOCS_ROOT, doc1_path))
        path2 == Resolve(PathJoin(DOCS_ROOT, doc2_path))
    IN  IF ~Exists(path1) \/ ~Exists(path2)
        THEN Returned([error |-> "One or both documents not found"])
        ELSE IF ~_read_file(path1).ok \/ ~_read_file(path2).ok THEN Raised
        ELSE
        LET content1 == _read_file(path1).text
            content2 == _read_file(path2).text
            Stats(content) == [words      |-> Len(SplitWs(content)),
                               lines      |-> Len(SplitChar(content, "\n")),
                               characters |-> Len(content)]
            words1   == WordSet(content1)
            words2   == WordSet(content2)
        IN  Returned(
            [document1  |-> doc1_path,
             document2  |-> doc2_path,
             statistics |->
                 [doc1 |-> Stats(content1),
                  doc2 |-> Stats(content2),
                  size_ratio |-> IF Stats(content2).words > 0
                                 THEN [num |-> Stats(content1).words,
                                       den |-> Stats(content2).words]
                                 ELSE [num |-> 1, den |-> 0]],
             content_similarity |->
                 [common_words_count   |-> Cardinality(words1 \cap words2),
                  unique_to_doc1_count |-> Cardinality(words1 \ words2),
                  unique_to_doc2_count |-> Cardinality(words2 \ words1),
                  similarity_ratio     |-> SimilarityRatio(words1 \cap words2,
                                                           words1 \cup words2)],
             structure_comparison |->
                 [doc1_headers        |-> HeaderTitles(content1),
                  doc2_headers        |-> HeaderTitles(content2),
                  common_headers      |-> lists.common_headers,
                  unique_headers_doc1 |-> lists.unique_headers_doc1,
                  unique_headers_doc2 |-> lists.unique_headers_doc2],
             sample_unique_words |->
                 [doc1 |-> ListSlice(lists.unique_to_doc1, 0, SampleLimit),
                  doc2 |-> ListSlice(lists.unique_to_doc2, 0, SampleLimit)]])

(***************************************************************************)
(* Specification SpecAccess: docs/d1.md with every text of at most         *)
(* MaxAccessLines lines of AccessLinePool, docs/sub/d2.md, and with or     *)
(* without a file secret.txt next to the docs root; the tools that take a  *)
(* path are called with paths inside the root, outside it, of a directory  *)
(* and of nothing.                                                         *)
(***************************************************************************)

MaxAccessLines == 2

AccessLinePool == {"# A", "alpha Beta; .", ""}

AccessDocs == {Join("\n", ls) : ls \in SeqsUpTo(AccessLinePool, MaxAccessLines) \ {<<>>}}

AccessPaths ==
    {<<"d1.md">>, <<"sub", "d2.md">>, <<"sub">>, <<"nope.md">>,
     <<"..", "secret.txt">>, <<"/", "srv", "secret.txt">>}

\* what lies next to the docs root: the file secret.txt, or nothing
OutsideFiles ==
    {<<>>, <<[path |-> <<"/", "srv", "secret.txt">>, text |-> "# Key\ntoken alpha",
              readable |-> TRUE]>>}

InitAccess ==
    /\ fs \in {<<[path |-> DOCS_ROOT \o <<"d1.md">>, text |-> t, readable |-> TRUE],
                 [path |-> DOCS_ROOT \o <<"sub", "d2.md">>, text |-> "# A\nalpha",
                  readable |-> TRUE]>> \o outside :
                 t \in AccessDocs, outside \in OutsideFiles}
    /\ call = NoCall
    /\ result = <<>>
    /\ outcome = "none"

\* the resource read_doc
ReadDoc ==
    \E relative_path \in AccessPaths :
        /\ Idle
        /\ call' = [op |-> "read_doc", relative_path |-> relative_path]
        /\ Finish(read_doc(relative_path))
        /\ UNCHANGED fs

\* the tool extract_section with a path of the caller
ExtractSectionAt ==
    \E relative_path \in AccessPaths, title \in {"A", "zz"}, inc \in BOOLEAN :
        /\ Idle
        /\ call' = [op |-> "extract_section", relative_path |-> relative_path,
                    section_title |-> title, include_subsections |-> inc]
        /\ Finish(extract_section(relative_path, title, inc))
        /\ UNCHANGED fs

\* the tool generate_table_of_contents, for one document or (<<>>) for all
GenerateTableOfContents ==
    \E relative_path \in AccessPaths \cup {<<>>} :
        /\ Idle
        /\ call' = [op |-> "generate_table_of_contents", relative_path |-> relative_path]
        /\ Finish(generate_table_of_contents(relative_path))
        /\ UNCHANGED fs

\* the tool compare_documents; list(...) gives the sets in one of their orders
CompareDocuments ==
    \E doc1_path \in AccessPaths, doc2_path \in AccessPaths :
        \E lists \in ListOrders(CompareSets(doc1_path, doc2_path)) :
            /\ Idle
            /\ call' = [op |-> "compare_documents", doc1_path |-> doc1_path,
                        doc2_path |-> doc2_path, lists |-> lists]
            /\ Finish(compare_documents(doc1_path, doc2_path, lists))
            /\ UNCHANGED fs

NextAccess ==
    ReadDoc \/ ExtractSectionAt \/ GenerateTableOfContents \/ CompareDocuments \/ Return

SpecAccess == InitAccess /\ [][NextAccess]_vars

\* the paths the call in progress names, resolved
CallPaths ==
    IF call.op = "compare_documents"
    THEN {Resolve(PathJoin(DOCS_ROOT, call.doc1_path)),
          Resolve(PathJoin(DOCS_ROOT, call.doc2_path))}
    ELSE {Resolve(PathJoin(DOCS_ROOT, call.relative_path))}

\* an existing file that is not below the docs root
OutsideFile(path) ==
    /\ IsFile(path)
    /\ ~(Len(path) > Len(DOCS_ROOT) /\ SubSeq(path, 1, Len(DOCS_ROOT)) = DOCS_ROOT)

\* C5: an operation that takes a document path returns the access-denied
\* error, and no file content, when the path resolves to an existing file
\* outside the docs root.
C5_AccessDeniedOutsideRoot ==
    (/\ call.op \in {"read_doc", "extract_section", "generate_table_of_contents",
                     "compare_documents"}
     /\ outcome # "none"
     /\ \E path \in CallPaths : OutsideFile(path)) =>
        /\ outcome = "returned"
        /\ IF call.op = "read_doc"
           THEN result = "Access denied: path escapes docs root."
           ELSE result = [error |-> "Access denied: path escapes docs root."]

\* the call in progress names a location that is not below the docs root
CallOutsideRoot ==
    \A path \in CallPaths :
        ~(Len(path) > Len(DOCS_ROOT) /\ SubSeq(path, 1, Len(DOCS_ROOT)) = DOCS_ROOT)

\* C27: for a path that resolves outside the docs root the response of
\* read_doc and extract_section does not depend on the files outside the root:
\* it is the access-denied answer, which a call gets when a file is there,
\* also when no file is there.
C27_OutsideResponseHidesExistence ==
    (call.op \in {"read_doc", "extract_section"} /\ outcome # "none" /\ CallOutsideRoot) =>
        /\ outcome = "returned"
        /\ IF call.op = "read_doc"
           THEN result = "Access denied: path escapes docs root."
           ELSE result = [error |-> "Access denied: path escapes docs root."]

\* the call in progress has compared an existing, readable document with itself
SelfComparison ==
    /\ call.op = "compare_documents"
    /\ outcome = "returned"
    /\ Cardinality(CallPaths) = 1
    /\ \A path \in CallPaths : IsFile(path)

\* C10 as stated: a document compared with itself has similarity_ratio 1.0 and
\* no unique words on either side, whatever its content.
C10_SelfSimilarityIsOne ==
    SelfComparison =>
        /\ result.content_similarity.similarity_ratio.num
               = result.content_similarity.similarity_ratio.den
        /\ result.content_similarity.unique_to_doc1_count = 0
        /\ result.content_similarity.unique_to_doc2_count = 0

\* C10, amended: a document compared with itself has no unique words on either
\* side; its similarity_ratio is 1.0 when the document holds at least one
\* whitespace-delimited word, and 0 when it holds none.
C10_SelfSimilarityUnlessEmpty ==
    SelfComparison =>
        LET ratio == result.content_similarity.similarity_ratio
        IN  /\ result.content_similarity.unique_to_doc1_count = 0
            /\ result.content_similarity.unique_to_doc2_count = 0
            /\ result.sample_unique_words = [doc1 |-> <<>>, doc2 |-> <<>>]
            /\ IF result.statistics.doc1.words > 0
               THEN ratio.num = ratio.den /\ ratio.den > 0
               ELSE ratio.num = 0 /\ ratio.den = 1

\* a document of several different words compared with itself
C10_Witness ==
    /\ SelfComparison
    /\ \A path \in CallPaths : ~OutsideFile(path)
    /\ result.content_similarity.common_words_count >= 3

\* C23: the result of a call is determined by the corpus and the parameters:
\* compare_documents returns the same result, its lists common_headers,
\* unique_headers and sample_unique_words included, for every order in which
\* the sets it turns into lists are iterated.
C23_ResultIndependentOfSetOrder ==
    (call.op = "compare_documents" /\ outcome = "returned") =>
        \A lists \in ListOrders(CompareSets(call.doc1_path, call.doc2_path)) :
            compare_documents(call.doc1_path, call.doc2_path, lists).value = result

(***************************************************************************)
(* extract_key_concepts, _count_syllables and analyze_readability          *)
(* (document_intelligence.py)                                              *)
(***************************************************************************)

\* len(word) > 3
MinProperNounLen == 3

\* concepts[:20]
MaxConcepts == 20

\* the inline-code marker, as a one-character string
Backtick == SubSeq("`'", 1, 1)

\* extract_key_concepts: the terms in backticks, the terms in bold and the
\* capitalized words of the normalized text, each with its number of
\* occurrences, in the order of first occurrence (Counter), those of at least
\* min_frequency kept, sorted by frequency (stable), the first 20
extract_key_concepts(content, min_frequency) ==
    LET \* the code pattern: a backtick, a run of other characters, a backtick
        TickEnd(t, i) ==
            IF CharAt(t, i) # Backtick THEN -1
            ELSE LET e == Find(t, Backtick, i + 1)
                 IN  IF e > i + 1 THEN e + 1 ELSE -1
        \* the bold pattern: two asterisks, a run of other characters, two asterisks
        BoldEnd(t, i) ==
            IF ~MatchAt(t, "**", i) THEN -1
            ELSE LET e == Find(t, "*", i + 2)
                 IN  IF e > i + 2 /\ MatchAt(t, "**", e) THEN e + 2 ELSE -1
        \* a capital letter and a run of small letters, between word boundaries
        CapEnd(t, i) ==
            IF i < Len(t) /\ CharAt(t, i) \in UpperLetters
               /\ (i = 0 \/ CharAt(t, i - 1) \notin WordChars)
            THEN LET e == RunEnd(t, i + 1, LowerLetters)
                 IN  IF e > i + 1 /\ (e = Len(t) \/ CharAt(t, e) \notin WordChars)
                     THEN e ELSE -1
            ELSE -1
        Inner(ms, n) == [k \in 1..Len(ms) |-> Slice(ms[k], n, Len(ms[k]) - n)]
        \* Counter(terms).items(), filtered
        Counted(terms, type, min_len) ==
            LET firsts == SelectSeq([k \in 1..Len(terms) |-> k],
                              LAMBDA k : \A j \in 1..(k - 1) : terms[j] # terms[k])
                items  == [k \in 1..Len(firsts) |->
                              [concept   |-> terms[firsts[k]],
                               frequency |-> Freq(terms, terms[firsts[k]]),
                               type      |-> type]]
            IN  SelectSeq(items, LAMBDA c : c.frequency >= min_frequency
                                            /\ Len(c.concept) > min_len)
        Concepts(tech_terms, bold_terms, words) ==
            Counted(tech_terms, "technical_term", -1)
            \o Counted(bold_terms, "emphasized_term", -1)
            \o Counted(words, "proper_noun", MinProperNounLen)
        Of(cleaned) ==
            ListSlice(
                SortDescending(
                    Concepts(Inner(ReFindAll(cleaned, TickEnd), 1),
                             Inner(ReFindAll(cleaned, BoldEnd), 2),
                             ReFindAll(cleaned, CapEnd)),
                    LAMBDA a, b : a.frequency < b.frequency),
                0, MaxConcepts)
    IN  Of(_clean_pdf_content(content))

\* len(word) <= 3
ShortWordLen == 3

\* _count_syllables, for a lowercase word: the runs of vowels, less a final e
_count_syllables(word) ==
    IF Len(word) <= ShortWordLen THEN 1
    ELSE LET vowels == {"a", "e", "i", "o", "u", "y"}
             syllable_count ==
                 Cardinality({i \in 0..(Len(word) - 1) :
                                 /\ CharAt(word, i) \in vowels
                                 /\ (i = 0 \/ CharAt(word, i - 1) \notin vowels)})
             adjusted == IF EndsWith(word, "e") /\ syllable_count > 1
                         THEN syllable_count - 1 ELSE syllable_count
         IN  IF adjusted > 1 THEN adjusted ELSE 1

\* the thresholds of the complexity labels
EasyMin == 70

ModerateScoreMin == 50

DifficultMin == 30

\* the counts analyze_readability works on: the sentences, words and syllables
\* of the cleaned text
ReadabilityCounts(content) ==
    LET Counted(sentences, words) ==
            [sentences |-> Len(sentences),
             words     |-> Len(words),
             syllables |-> SumSeq([k \in 1..Len(words) |-> _count_syllables(words[k])])]
        Of(cleaned) == Counted(_split_into_sentences(cleaned), _extract_words(cleaned))
    IN  Of(_clean_pdf_content(content))

\* "if not sentences or not words", with the mistake of testing the sentences only
Degenerate_SentencesOnly(c) == c.sentences = 0

\* if not sentences or not words
Degenerate(c) == c.sentences = 0 \/ c.words = 0

\* the denominator of syllable_count / word_count if word_count > 0 else 0
WordDivisor(c) == IF c.words > 0 THEN c.words ELSE 1

\* flesch_score = 206.835 - 1.015 * (w / s) - 84.6 * (y / w), clamped to 0..100,
\* as a numerator over 1000 * s * w
FleschScore(c) ==
    LET s   == c.sentences
        w   == WordDivisor(c)
        raw == 206835 * s * w - 1015 * c.words * w - 84600 * c.syllables * s
    IN  IF raw < 0 THEN 0 ELSE IF raw > 100000 * s * w THEN 100000 * s * w ELSE raw

\* the quotient n / d has the digit 5 right after the last digit round() keeps;
\* the float that round() is given lies a rounding error above or below it
RoundingTie(n, d) == 2 * (n % d) = d

\* the fields of the result that are rounded
RoundedFields ==
    {"flesch_score", "grade_level", "avg_sentence_length", "avg_syllables_per_word"}

\* analyze_readability. The rounded fields are integers in units of the last
\* digit kept: flesch_score, grade_level and avg_sentence_length in tenths,
\* avg_syllables_per_word in hundredths. up holds the fields whose float, when
\* the exact quotient is a tie, lies above the tie and is rounded up.
analyze_readability(content, up) ==
    LET Round(n, d, field) ==
            IF 2 * (n % d) > d \/ (RoundingTie(n, d) /\ field \in up)
            THEN (n \div d) + 1 ELSE n \div d
        Of(c) ==
            LET s == c.sentences
                w == WordDivisor(c)
                y == c.syllables
                den == 1000 * s * w
                flesch  == FleschScore(c)
                \* grade_level = 0.39 * (w / s) + 11.8 * (y / w) - 15.59, at least 1
                raw_g   == 390 * c.words * w + 11800 * y * s - 15590 * s * w
                grade   == IF raw_g < den THEN den ELSE raw_g
            IN  IF Degenerate(c)
                THEN [flesch_score |-> 0, grade_level |-> 0, complexity |-> "unknown"]
                ELSE [flesch_score |-> Round(flesch, 100 * s * w, "flesch_score"),
                      grade_level  |-> Round(grade, 100 * s * w, "grade_level"),
                      complexity   |-> IF flesch >= EasyMin * den THEN "easy"
                                       ELSE IF flesch >= ModerateScoreMin * den THEN "moderate"
                                       ELSE IF flesch >= DifficultMin * den THEN "difficult"
                                       ELSE "very difficult",
                      avg_sentence_length    |-> Round(10 * c.words, s, "avg_sentence_length"),
                      avg_syllables_per_word |-> Round(100 * y, w, "avg_syllables_per_word"),
                      total_sentences |-> s,
                      total_words     |-> c.words]
    IN  Of(ReadabilityCounts(content))

\* the flesch_score of the document is a tie of round()
FleschTie(content) ==
    LET Of(c) ==
            ~Degenerate(c) /\ RoundingTie(FleschScore(c), 100 * c.sentences * WordDivisor(c))
    IN  Of(ReadabilityCounts(content))

\* the documents of all_docs whose flesch_score is a tie of round()
TiedDocs(all_docs) ==
    {k \in 1..Len(all_docs) :
        _read_file(all_docs[k].path).ok /\ FleschTie(_read_file(all_docs[k].path).text)}

(***************************************************************************)
(* The corpus-wide tools analyze_document_gaps and                         *)
(* generate_documentation_index. A dict is the list of its items in        *)
(* insertion order; a quotient is kept as numerator and denominator.       *)
(***************************************************************************)

\* word_count < 100
ShortDocWords == 100

\* word_count > 3000
LongDocWords == 3000

\* readability.get('flesch_score', 50) < 30
LowReadabilityBelow == 30

\* short_docs[:3], low_readability_docs[:3]
RecommendLimit == 3

common_sections ==
    <<"introduction", "overview", "getting started", "configuration", "examples",
      "troubleshooting">>

\* the sections that the recommendation names: those whose count is not above
\* the count given, with the mistake of naming only the sections no document has
MissingSectionTypes_Uncovered(section_coverage, least_covered) ==
    SelectSeq(section_coverage, LAMBDA c : c.count = 0)

\* [section for section, count in section_coverage.items() if count <= least_covered]
MissingSectionTypes(section_coverage, least_covered) ==
    SelectSeq(section_coverage, LAMBDA c : c.count <= least_covered)

\* the tool analyze_document_gaps over the documents all_docs, in that order;
\* flesch_score is in tenths, and up holds the documents whose tie is rounded up
AnalyzeDocumentGapsOver(all_docs, up) ==
    LET n == Len(all_docs)
        \* what the loop over all_docs takes from the document k
        Analysis(k) ==
            LET Of(content) ==
                    [rel_path     |-> RelativeTo(all_docs[k].path),
                     word_count   |-> Len(SplitWs(content)),
                     flesch_score |->
                         analyze_readability(
                             content, IF k \in up THEN {"flesch_score"} ELSE {}).flesch_score,
                     headers      |-> _extract_headers(content)]
            IN  Of(_read_file(all_docs[k].path).text)
        RECURSIVE Analyses(_)
        Analyses(k) == IF k > n THEN <<>> ELSE <<Analysis(k)>> \o Analyses(k + 1)
        Report(docs) ==
            LET rel_path(k)    == docs[k].rel_path
                word_count(k)  == docs[k].word_count
                Select(P(_))   ==
                    LET idx == SelectSeq([k \in 1..n |-> k], P)
                    IN  [i \in 1..Len(idx) |-> rel_path(idx[i])]
                short_docs == Select(LAMBDA k : word_count(k) < ShortDocWords)
                long_docs  == Select(LAMBDA k : /\ ~(word_count(k) < ShortDocWords)
                                                /\ word_count(k) > LongDocWords)
                low_readability_docs ==
                    Select(LAMBDA k : docs[k].flesch_score < LowReadabilityBelow * 10)
                \* headers = [h['title'].lower() ...]; any(section in header ...)
                Covers(k, section) ==
                    \E i \in 1..Len(docs[k].headers) :
                        Contains(Lower(docs[k].headers[i].title), section)
                section_coverage ==
                    [j \in 1..Len(common_sections) |->
                        [section |-> common_sections[j],
                         count   |-> Cardinality({k \in 1..n : Covers(k, common_sections[j])})]]
                missing(k) == SelectSeq(common_sections, LAMBDA sec : ~Covers(k, sec))
                missing_idx == SelectSeq([k \in 1..n |-> k], LAMBDA k : Len(missing(k)) > 0)
                missing_sections ==
                    [i \in 1..Len(missing_idx) |->
                        [document |-> rel_path(missing_idx[i]),
                         missing  |-> missing(missing_idx[i])]]
                least_covered ==
                    CHOOSE m \in {section_coverage[j].count : j \in 1..Len(section_coverage)} :
                        \A j \in 1..Len(section_coverage) : m <= section_coverage[j].count
                types == MissingSectionTypes(section_coverage, least_covered)
                missing_section_types == [j \in 1..Len(types) |-> types[j].section]
                recommendations ==
                    (IF Len(short_docs) > 0
                     THEN <<"Consider expanding these short documents: "
                                \o Join(", ", ListSlice(short_docs, 0, RecommendLimit))>>
                     ELSE <<>>)
                    \o (IF Len(low_readability_docs) > 0
                        THEN <<"Improve readability of: "
                                   \o Join(", ", ListSlice(low_readability_docs, 0,
                                                           RecommendLimit))>>
                        ELSE <<>>)
                    \o (IF Len(missing_section_types) > 0
                        THEN <<"Consider adding " \o Join(", ", missing_section_types)
                                   \o " sections to more documents">>
                        ELSE <<>>)
            IN  [total_documents   |-> n,
                 coverage_analysis |->
                     [average_words_per_doc |->
                          IF n > 0
                          THEN [num |-> SumSeq([k \in 1..n |-> word_count(k)]), den |-> n]
                          ELSE [num |-> 0, den |-> 1],
                      short_documents  |-> short_docs,
                      long_documents   |-> long_docs,
                      section_coverage |-> section_coverage],
                 recommendations   |-> recommendations,
                 content_quality   |->
                     [low_readability         |-> low_readability_docs,
                      missing_common_sections |-> missing_sections],
                 structure_issues  |-> <<>>]
    IN  IF \E k \in 1..n : ~_read_file(all_docs[k].path).ok THEN Raised
        ELSE Returned(Report(Analyses(1)))

analyze_document_gaps(up) == AnalyzeDocumentGapsOver(_iter_docs, up)

\* concepts[:5]
MainTopicCount == 5

\* max_results=3
CrossReferenceLimit == 3

\* d['frequency'] > 2
FrequentAbove == 2

\* len(docs) >= 2
TopicMinDocs == 2

\* the query words of the cross-references of a document with the concepts
\* names: set(self._extract_words(' '.join(names).lower())), in the order of
\* first occurrence
ConceptQueryWords(names) ==
    LET ws == _extract_words(Lower(Join(" ", names)))
    IN  SelectSeq([i \in 1..Len(ws) |->
                      IF \E j \in 1..(i - 1) : ws[j] = ws[i] THEN "" ELSE ws[i]],
                  LAMBDA x : x # "")

\* the cross-references of a document, with the mistake of keeping the document
CrossReferences_Unfiltered(rel_path, related_docs) ==
    [i \in 1..Len(related_docs) |-> related_docs[i].path]

\* [doc['path'] for doc in related_docs if doc['path'] != rel_path]
CrossReferences(rel_path, related_docs) ==
    LET kept == SelectSeq(related_docs, LAMBDA doc : doc.path # rel_path)
    IN  [i \in 1..Len(kept) |-> kept[i].path]

\* the tool generate_documentation_index over the documents all_docs, in that
\* order; readability_score is in tenths, and up holds the documents whose tie
\* is rounded up
GenerateDocumentationIndexOver(all_docs, up) ==
    LET n == Len(all_docs)
        \* what the loop over all_docs takes from the document k
        Analysis(k) ==
            LET Of(content) ==
                    [rel_path     |-> RelativeTo(all_docs[k].path),
                     concepts     |-> extract_key_concepts(content, 1),
                     word_count   |-> Len(SplitWs(content)),
                     sections     |-> Len(_extract_headers(content)),
                     flesch_score |->
                         analyze_readability(
                             content, IF k \in up THEN {"flesch_score"} ELSE {}).flesch_score]
            IN  Of(_read_file(all_docs[k].path).text)
        RECURSIVE Analyses(_)
        Analyses(k) == IF k > n THEN <<>> ELSE <<Analysis(k)>> \o Analyses(k + 1)
        Report(docs) ==
            LET rel_path(k) == docs[k].rel_path
                concepts(k) == docs[k].concepts
                main_topics(k) ==
                    LET top == ListSlice(concepts(k), 0, MainTopicCount)
                    IN  [i \in 1..Len(top) |-> top[i].concept]
                RECURSIVE Entries(_)
                Entries(k) ==
                    IF k > n THEN <<>>
                    ELSE LET cs == concepts(k)
                         IN  [i \in 1..Len(cs) |->
                                 [concept |-> cs[i].concept, document |-> rel_path(k),
                                  frequency |-> cs[i].frequency, type |-> cs[i].type]]
                             \o Entries(k + 1)
                entries == Entries(1)
                names   ==
                    SelectSeq([i \in 1..Len(entries) |->
                                  IF \E j \in 1..(i - 1) : entries[j].concept = entries[i].concept
                                  THEN "" ELSE entries[i].concept],
                              LAMBDA x : x # "")
                DocsOf(c) ==
                    LET es == SelectSeq(entries, LAMBDA e : e.concept = c)
                    IN  [i \in 1..Len(es) |->
                            [document |-> es[i].document, frequency |-> es[i].frequency,
                             type |-> es[i].type]]
                all_concepts ==
                    [i \in 1..Len(names) |-> [concept |-> names[i], docs |-> DocsOf(names[i])]]
                kept == SelectSeq(all_concepts,
                                  LAMBDA c : \/ Len(c.docs) > 1
                                             \/ \E i \in 1..Len(c.docs) :
                                                    c.docs[i].frequency > FrequentAbove)
                clusters == SelectSeq(kept, LAMBDA c : Len(c.docs) >= TopicMinDocs)
                topic_clusters ==
                    [i \in 1..Len(clusters) |->
                        [concept   |-> clusters[i].concept,
                         documents |-> [j \in 1..Len(clusters[i].docs) |->
                                           clusters[i].docs[j].document]]]
                RECURSIVE CrossReferencesFrom(_)
                CrossReferencesFrom(k) ==
                    IF k > n THEN <<>>
                    ELSE <<[document |-> rel_path(k),
                            related  |->
                                CrossReferences(
                                    rel_path(k),
                                    find_related_content(ConceptQueryWords(main_topics(k)),
                                                         all_docs, CrossReferenceLimit))]>>
                         \o CrossReferencesFrom(k + 1)
                metadata ==
                    [k \in 1..n |->
                        [document          |-> rel_path(k),
                         word_count        |-> docs[k].word_count,
                         sections          |-> docs[k].sections,
                         readability_score |-> docs[k].flesch_score,
                         main_topics       |-> main_topics(k)]]
                Indexed(cross_references) ==
                    [index |-> [concepts         |-> kept,
                                topics           |-> topic_clusters,
                                cross_references |-> cross_references,
                                metadata         |-> metadata],
                     statistics |->
                         [total_concepts  |-> Len(kept),
                          total_topics    |-> Len(topic_clusters),
                          total_documents |-> n,
                          avg_cross_references |->
                              IF n > 0
                              THEN [num |-> SumSeq([k \in 1..n |->
                                                      Len(cross_references[k].related)]),
                                    den |-> n]
                              ELSE [num |-> 0, den |-> 1]]]
            IN  Indexed(CrossReferencesFrom(1))
    IN  IF \E k \in 1..n : ~_read_file(all_docs[k].path).ok THEN Raised
        ELSE Returned(Report(Analyses(1)))

generate_documentation_index(up) == GenerateDocumentationIndexOver(_iter_docs, up)

(***************************************************************************)
(* The specification of the summary: one document, generate_smart_summary  *)
(* applied to its text with each summary type                              *)
(***************************************************************************)

\* the longest document, in sentence-like pieces
MaxSentences == 13

\* the pieces a document is made of: "Short" is too short to be a sentence,
\* configFile is changed by the PDF normalization
SentencePool ==
    <<"The server must configure ports", "Alpha beta gamma delta",
      "A configFile holds server ports", "Short", "Gamma gamma is important",
      "install alpha">>

\* the steps between the pieces taken from the pool
PoolStrides == {1, 5}

\* the document of n pieces, taken from the pool from offset o in steps of d
PoolDoc(o, d, n) ==
    Join("", [k \in 1..n |-> SentencePool[((o + (k - 1) * d) % Len(SentencePool)) + 1]
                              \o ". "])

SummaryDocs ==
    {PoolDoc(o, d, n) : o \in 0..(Len(SentencePool) - 1), d \in PoolStrides,
                        n \in 1..MaxSentences}

SummaryTypes == {"short", "medium", "long"}

InitSummary ==
    /\ fs \in {MkFs(<<[text |-> t, readable |-> TRUE]>>) : t \in SummaryDocs}
    /\ call = NoCall
    /\ result = <<>>
    /\ outcome = "none"

\* doc_intel.generate_smart_summary(content, summary_type) on a document's text
GenerateSmartSummary ==
    \E k \in 1..Len(fs), summary_type \in SummaryTypes :
        /\ Idle
        /\ call' = [op |-> "generate_smart_summary", content |-> fs[k].text,
                    summary_type |-> summary_type]
        /\ Finish(Returned(generate_smart_summary(fs[k].text, summary_type)))
        /\ UNCHANGED fs

NextSummary == GenerateSmartSummary \/ Return

SpecSummary == InitSummary /\ [][NextSummary]_vars

\* the sentences of the text of the call in progress, and their scores
CallSentences == _split_into_sentences(_clean_pdf_content(call.content))

CallScores ==
    LET words     == _extract_words(_clean_pdf_content(call.content))
        sentences == CallSentences
    IN  [k \in 1..Len(sentences) |->
            SentenceScore(sentences[k], k - 1, Len(sentences), words)]

\* K of the claim: 3 for short, 6 for medium, 10 for long
CallK == IF call.summary_type = "short" THEN 3
         ELSE IF call.summary_type = "long" THEN 10 ELSE 6

\* the sentences at the positions of S, ascending, joined as the summary joins them
JoinedAscending(sentences, S) ==
    LET RECURSIVE Asc(_)
        Asc(T) == IF T = {} THEN <<>>
                  ELSE LET m == CHOOSE i \in T : \A j \in T : i <= j
                       IN  <<sentences[m]>> \o Asc(T \ {m})
    IN  Join(" ", Asc(S))

\* C7: over a text with n >= 1 sentences the summary is made of exactly
\* min(K, n) distinct sentences (K = 3 short, 6 medium, 10 long), none of them
\* with a lower score than an unselected sentence, joined in strictly
\* increasing order of their position in the source.
C7_TopKInSourceOrder ==
    (call.op = "generate_smart_summary" /\ outcome = "returned") =>
        LET sentences == CallSentences
            scores    == CallScores
            n         == Len(sentences)
            m         == IF CallK < n THEN CallK ELSE n
        IN  n >= 1 =>
                \E S \in SUBSET (1..n) :
                    /\ Cardinality(S) = m
                    /\ \A i \in S : \A j \in (1..n) \ S :
                           scores[i].num * scores[j].den >= scores[j].num * scores[i].den
                    /\ result = JoinedAscending(sentences, S)

\* a long summary that leaves out a sentence that is not among the last ones:
\* a sentence is kept although an earlier one is dropped
C7_Witness ==
    /\ call.op = "generate_smart_summary" /\ outcome = "returned"
    /\ call.summary_type = "long"
    /\ LET sentences == CallSentences
       IN  /\ Len(sentences) > CallK
           /\ result # JoinedAscending(sentences, 1..CallK)

\* C8: each sentence of the summary is a character-for-character substring of
\* the text that was passed in.
C8_VerbatimSentences ==
    (call.op = "generate_smart_summary" /\ outcome = "returned") =>
        LET cleaned   == _clean_pdf_content(call.content)
            sentences == _split_into_sentences(cleaned)
            idx       == TopSentenceIndices(sentences, _extract_words(cleaned),
                                            call.summary_type)
        IN  Len(sentences) >= 1 =>
                \A k \in 1..Len(idx) : Contains(call.content, sentences[idx[k] + 1])

\* what the position adds to the raw score of the k-th sentence of the call's
\* text: its raw score less the raw score of the same sentence in the middle of
\* a long document
PositionBonus(k) ==
    LET words     == _extract_words(_clean_pdf_content(call.content))
        sentences == CallSentences
    IN  RawScore(sentences[k], k - 1, Len(sentences), words)
            - RawScore(sentences[k], FirstSentences, FirstSentences + LastSentences + 1, words)

\* C25: the raw score of a sentence includes +5 when the sentence is among the
\* first 3 sentences and +3 when it is among the last 2, in documents of every
\* length, those of fewer than 5 sentences included.
C25_BothPositionBonuses ==
    (call.op = "generate_smart_summary" /\ outcome = "returned") =>
        LET n == Len(CallSentences)
        IN  \A k \in 1..n :
                PositionBonus(k) = (IF k <= 3 THEN 5 ELSE 0) + (IF k > n - 2 THEN 3 ELSE 0)

(***************************************************************************)
(* Specification SpecCorpus: up to MaxCorpusDocs text files under the docs *)
(* root, each with one of the texts of CorpusTexts or unreadable; the      *)
(* tools analyze_document_gaps, generate_documentation_index and           *)
(* find_related_documents are called.                                      *)
(***************************************************************************)

MaxCorpusDocs == 2

\* a name in inline code, which is also a capitalized word
ConceptText == "Use " \o Backtick \o "Alpha" \o Backtick \o " here."

\* a capitalized word three times in one document
FrequentText == "# Overview\nAlpha Alpha Alpha beta."

\* two words that the extraction has joined
JoinedWordsText == "# Troubleshooting\nconfigFile holds gamma."

\* 6 sentences, 19 words, 39 syllables: 206.835 - 1.015 * 19 / 6 - 84.6 * 39 / 19
\* is 29.968...
EdgeText ==
    "alpha gamma delta. alpha gamma delta. alpha gamma delta. alpha gamma delta. "
        \o "alpha gamma delta. banana alpha gamma delta."

\* one heading that covers the six common sections
AllSectionsText ==
    "# Introduction Overview Getting Started Configuration Examples Troubleshooting"

CorpusTexts == {ConceptText, FrequentText, JoinedWordsText, EdgeText, AllSectionsText}

CorpusFileKinds ==
    [text : CorpusTexts, readable : {TRUE}] \cup {[text |-> "alpha", readable |-> FALSE]}

InitCorpus ==
    /\ fs \in {MkFs(kinds) : kinds \in SeqsUpTo(CorpusFileKinds, MaxCorpusDocs)}
    /\ call = NoCall
    /\ result = <<>>
    /\ outcome = "none"

\* the tool analyze_document_gaps
AnalyzeDocumentGaps ==
    \E up \in SUBSET TiedDocs(_iter_docs) :
        /\ Idle
        /\ call' = [op |-> "analyze_document_gaps", up |-> up]
        /\ Finish(analyze_document_gaps(up))
        /\ UNCHANGED fs

\* the tool generate_documentation_index
GenerateDocumentationIndex ==
    \E up \in SUBSET TiedDocs(_iter_docs) :
        /\ Idle
        /\ call' = [op |-> "generate_documentation_index", up |-> up]
        /\ Finish(generate_documentation_index(up))
        /\ UNCHANGED fs

NextCorpus ==
    AnalyzeDocumentGaps \/ GenerateDocumentationIndex \/ FindRelatedDocuments \/ Return

SpecCorpus == InitCorpus /\ [][NextCorpus]_vars

\* generate_documentation_index has returned an index
IndexReturned == call.op = "generate_documentation_index" /\ outcome = "returned"

\* analyze_document_gaps has returned an analysis
GapsReturned == call.op = "analyze_document_gaps" /\ outcome = "returned"

\* the text of the document with the relative path rel
TextOf(rel) == fs[CHOOSE k \in 1..Len(fs) : RelativeTo(fs[k].path) = rel].text

\* C11: every concept that generate_documentation_index keeps appears in at
\* least 2 different documents or has a frequency above 2 in some document, and
\* the document list of every topic cluster names at least two distinct documents.
C11_ConceptsSharedOrFrequent ==
    IndexReturned =>
        /\ \A i \in 1..Len(result.index.concepts) :
              LET docs == result.index.concepts[i].docs
              IN  \/ Cardinality({docs[j].document : j \in 1..Len(docs)}) >= 2
                  \/ \E j \in 1..Len(docs) : docs[j].frequency > 2
        /\ \A i \in 1..Len(result.index.topics) :
              Cardinality(ToSet(result.index.topics[i].documents)) >= 2

\* C12: in the index built by generate_documentation_index, the
\* cross-reference list of a document never contains that document.
C12_NoSelfCrossReference ==
    IndexReturned =>
        \A k \in 1..Len(result.index.cross_references) :
            result.index.cross_references[k].document
                \notin ToSet(result.index.cross_references[k].related)

\* an index has been returned in which a document is related to its own main
\* topics, and has cross-references to other documents
C12_Witness ==
    /\ IndexReturned
    /\ \E k \in 1..Len(result.index.metadata) :
          LET related == find_related_content(
                             ConceptQueryWords(result.index.metadata[k].main_topics),
                             _iter_docs, CrossReferenceLimit)
          IN  /\ \E i \in 1..Len(related) :
                     related[i].path = result.index.metadata[k].document
              /\ result.index.cross_references[k].related # <<>>

\* the section recommendation for the reported coverage counts
SectionRecommendation ==
    LET coverage == result.coverage_analysis.section_coverage
        least    == SelectSeq(coverage,
                              LAMBDA c : \A j \in 1..Len(coverage) : c.count <= coverage[j].count)
    IN  "Consider adding " \o Join(", ", [j \in 1..Len(least) |-> least[j].section])
            \o " sections to more documents"

\* no heading of the corpus contains 'troubleshooting'
NoTroubleshootingHeading ==
    \A k \in 1..Len(fs) :
        LET hs == _extract_headers(fs[k].text)
        IN  \A i \in 1..Len(hs) : ~Contains(Lower(hs[i].title), "troubleshooting")

\* C13: analyze_document_gaps emits a section recommendation naming exactly
\* the checklist entries whose coverage count is the minimum over the six
\* entries; when no heading contains 'troubleshooting', it names 'troubleshooting'.
C13_LeastCoveredRecommended ==
    GapsReturned =>
        /\ SectionRecommendation \in ToSet(result.recommendations)
        /\ NoTroubleshootingHeading =>
              \E i \in 1..Len(result.recommendations) :
                  /\ StartsWith(result.recommendations[i], "Consider adding ")
                  /\ Contains(result.recommendations[i], "troubleshooting")

\* an analysis has been returned for a corpus without a troubleshooting heading
\* in which some section is covered, so that not every entry is named
C13_Witness ==
    /\ GapsReturned
    /\ NoTroubleshootingHeading
    /\ \E j \in 1..Len(result.coverage_analysis.section_coverage) :
          result.coverage_analysis.section_coverage[j].count > 0
    /\ SectionRecommendation \in ToSet(result.recommendations)
    /\ Contains(SectionRecommendation, "troubleshooting")

\* C14: analyze_document_gaps lists a document with at least one sentence and
\* one word under low_readability if and only if its Flesch score, the clamped
\* value of 206.835 - 1.015 * (words / sentences) - 84.6 * (syllables / words),
\* is below 30.
C14_LowReadabilityIffFleschBelow30 ==
    GapsReturned =>
        \A k \in 1..Len(fs) :
            LET c == ReadabilityCounts(fs[k].text)
            IN  ~Degenerate(c) =>
                    (RelativeTo(fs[k].path) \in ToSet(result.content_quality.low_readability)
                        <=> FleschScore(c) < 30 * 1000 * c.sentences * c.words)

\* C18: the word statistics are computed on the normalized text: the word count
\* of a document that find_related_content reports is the number of words of
\* the normalized text, and so is the number of words analyze_document_gaps sums.
C18_StatisticsOnNormalizedText ==
    /\ (call.op = "find_related_documents" /\ outcome = "returned") =>
          \A i \in 1..Len(result.related_documents) :
              result.related_documents[i].word_count
                  = Len(_extract_words(
                            _clean_pdf_content(TextOf(result.related_documents[i].path))))
    /\ GapsReturned =>
          result.coverage_analysis.average_words_per_doc.num
              = SumSeq([k \in 1..Len(fs) |-> Len(SplitWs(_clean_pdf_content(fs[k].text)))])

(***************************************************************************)
(* Specification SpecReadability: one document, made of up to              *)
(* MaxReadabilityWords words that alternate between two words of           *)
(* ReadabilityWords, or one of the texts without a sentence or without a   *)
(* word; analyze_readability and generate_smart_summary are applied to it. *)
(***************************************************************************)

MaxReadabilityWords == 13

\* words of one, two and three syllables, and a stop word
ReadabilityWords == {"cat", "alpha", "banana", "the"}

\* the sentence of n words a b a b ...
AlternatingText(a, b, n) ==
    Join(" ", [k \in 1..n |-> IF k % 2 = 1 THEN a ELSE b]) \o "."

\* empty, blank, fragments of at most 10 characters, stop words only, digits only
DegenerateTexts ==
    {"", "   ", "Hi. Yo. Short one.", "the and of it is was.", "12345 67890 123."}

ReadabilityTexts ==
    {AlternatingText(a, b, n) : a \in ReadabilityWords, b \in ReadabilityWords,
                                n \in 1..MaxReadabilityWords}
        \cup DegenerateTexts

InitReadability ==
    /\ fs \in {MkFs(<<[text |-> t, readable |-> TRUE]>>) : t \in ReadabilityTexts}
    /\ call = NoCall
    /\ result = <<>>
    /\ outcome = "none"

\* doc_intel.analyze_readability(content) on a document's text
AnalyzeReadability ==
    \E k \in 1..Len(fs), up \in SUBSET RoundedFields :
        /\ Idle
        /\ call' = [op |-> "analyze_readability", content |-> fs[k].text, up |-> up]
        /\ Finish(Returned(analyze_readability(fs[k].text, up)))
        /\ UNCHANGED fs

NextReadability == AnalyzeReadability \/ GenerateSmartSummary \/ Return

SpecReadability == InitReadability /\ [][NextReadability]_vars

\* analyze_readability has returned a result with a score
ScoredResult ==
    call.op = "analyze_readability" /\ outcome = "returned" /\ result.complexity # "unknown"

\* C15: in every non-degenerate result of analyze_readability the complexity
\* label is the bucket of the returned flesch_score (in tenths): easy from 70,
\* moderate from 50 to below 70, difficult from 30 to below 50, very difficult
\* below 30.
C15_LabelIsBucketOfReturnedScore ==
    ScoredResult =>
        result.complexity =
            IF result.flesch_score >= 700 THEN "easy"
            ELSE IF result.flesch_score >= 500 THEN "moderate"
            ELSE IF result.flesch_score >= 300 THEN "difficult"
            ELSE "very difficult"

\* the text of the call in progress has no sentence or no word
CallTextDegenerate ==
    LET c == ReadabilityCounts(call.content)
    IN  c.sentences = 0 \/ c.words = 0

\* C16: for a text with zero sentences or zero words analyze_readability
\* returns the neutral result (flesch_score 0, grade_level 0, complexity
\* unknown) and generate_smart_summary returns a string; neither raises.
C16_DegenerateInputNeutral ==
    /\ (call.op = "analyze_readability" /\ CallTextDegenerate) =>
          /\ outcome = "returned"
          /\ result = [flesch_score |-> 0, grade_level |-> 0, complexity |-> "unknown"]
    /\ (call.op = "generate_smart_summary" /\ CallTextDegenerate) =>
          /\ outcome = "returned"
          /\ result \in STRING

\* analyze_readability has answered for a text that has a sentence and no word
C16_Witness ==
    /\ call.op = "analyze_readability"
    /\ ReadabilityCounts(call.content).sentences > 0
    /\ ReadabilityCounts(call.content).words = 0
    /\ outcome = "returned"
    /\ result.complexity = "unknown"

(***************************************************************************)
(* The text of a PDF file (_read_pdf_file in server.py, ocr_processor.py). *)
(* A PDF is the list of its pages; a page has a text layer (text, "" when  *)
(* it has none, or an error raised by extract_text) and the outcome of its *)
(* OCR: the words recognized and their average confidence in percent.      *)
(* OCR_SUPPORT tells whether the OCR libraries are installed.              *)
(***************************************************************************)

\* min_text_length: int = 10
MinTextLength == 10

\* confidence_threshold: float = 0.3, in percent
ConfidenceThreshold == 30

\* c.isalnum()
Alnum == UpperLetters \cup LowerLetters \cup Digits

\* the text of the pages with a text layer, each under its marker; a page whose
\* extraction fails gets an error marker in _read_pdf_file and nothing in the
\* hybrid extraction
PageTexts(pages, error_markers) ==
    Join("", [k \in 1..Len(pages) |->
        IF pages[k].error # ""
        THEN IF error_markers
             THEN "\n--- Page " \o IntStr(k) \o " (Error reading: " \o pages[k].error
                      \o ") ---\n"
             ELSE ""
        ELSE IF pages[k].text # ""
             THEN "\n--- Page " \o IntStr(k) \o " ---\n" \o pages[k].text \o "\n"
             ELSE ""])

\* extract_text_from_image on the image of a page: success
OcrSuccess(page) ==
    Len(page.ocr) >= MinTextLength /\ page.confidence > ConfidenceThreshold

\* a confidence num / den in percent, formatted as {:.1%} for quotients with
\* one decimal
FormatPercent(num, den) ==
    IntStr(num \div den) \o "." \o IntStr(((10 * num) \div den) % 10) \o "%"

\* extract_text_from_pdf_images
extract_text_from_pdf_images(pages) ==
    LET combined_text ==
            Join("", [k \in 1..Len(pages) |->
                IF OcrSuccess(pages[k])
                THEN "\n--- Page " \o IntStr(k) \o " (OCR) ---\n" \o pages[k].ocr \o "\n"
                ELSE "\n--- Page " \o IntStr(k) \o " (OCR Failed) ---\n"])
        successful == {k \in 1..Len(pages) : OcrSuccess(pages[k])}
        total      == SumSeq([k \in 1..Len(pages) |->
                                 IF k \in successful THEN pages[k].confidence ELSE 0])
    IN  [text       |-> combined_text,
         success    |-> Len(Strip(combined_text)) >= MinTextLength,
         confidence |-> IF successful = {} THEN "0.0%"
                        ELSE FormatPercent(total, Cardinality(successful)),
         pages_info |-> ", Pages: " \o IntStr(Cardinality(successful)) \o "/"
                            \o IntStr(Len(pages)),
         method     |-> "OCR"]

\* extract_text_from_pdf_hybrid
extract_text_from_pdf_hybrid(pages) ==
    LET text_extracted   == PageTexts(pages, FALSE)
        meaningful_chars ==
            Cardinality({i \in 0..(Len(text_extracted) - 1) : CharAt(text_extracted, i) \in Alnum})
        ocr_result == extract_text_from_pdf_images(pages)
    IN  IF /\ 10 * meaningful_chars > Len(text_extracted)
           /\ Len(Strip(text_extracted)) > MinTextLength
        THEN [text |-> text_extracted, success |-> TRUE, confidence |-> "100.0%",
              pages_info |-> "", method |-> "text_extraction"]
        ELSE IF Strip(text_extracted) # "" /\ ocr_result.success
        THEN [text |-> text_extracted \o "\n\n--- OCR Results ---\n" \o ocr_result.text,
              success |-> TRUE, confidence |-> ocr_result.confidence,
              pages_info |-> "", method |-> "hybrid"]
        ELSE IF ocr_result.success THEN ocr_result
        ELSE IF Strip(text_extracted) # ""
        THEN [text |-> text_extracted, success |-> TRUE, confidence |-> "30.0%",
              pages_info |-> "", method |-> "text_extraction_low_quality"]
        ELSE [text |-> "", success |-> FALSE, confidence |-> "",
              pages_info |-> "", method |-> "failed"]

\* _read_pdf_file, with PyPDF2 installed
_read_pdf_file(name, pages, OCR_SUPPORT) ==
    IF OCR_SUPPORT
    THEN LET r == extract_text_from_pdf_hybrid(pages)
         IN  IF r.success
             THEN "--- PDF: " \o name \o " (Method: " \o r.method \o ", Confidence: "
                      \o r.confidence \o r.pages_info \o ") ---\n" \o r.text
             ELSE "--- PDF: " \o name
                      \o " (Processing Failed: Both text extraction and OCR failed) ---"
    ELSE LET text == PageTexts(pages, TRUE)
         IN  IF Strip(text) # ""
             THEN "--- PDF: " \o name \o " (Method: text_extraction) ---\n" \o text
             ELSE "--- PDF: " \o name \o " (No text extracted, OCR not available) ---"

(***************************************************************************)
(* Specification SpecPdf: one PDF file of up to MaxPages pages; its text   *)
(* is read and normalized as the statistics of document_intelligence.py do.*)
(***************************************************************************)

MaxPages == 2

\* a text layer of 40 characters that are no letters or digits
GarbageText == "~~~~ ~~~~ ~~~~ ~~~~ ~~~~ ~~~~ ~~~~ ~~~~ "

PageKinds ==
    [text : {"", "Install the server.", GarbageText}, error : {""},
     ocr : {"scanned words here"}, confidence : {90, 20}]
    \cup [text : {""}, error : {"bad xref"}, ocr : {"scanned words here"},
          confidence : {90, 20}]

InitPdf ==
    /\ fs \in {<<[path |-> DOCS_ROOT \o <<"doc.pdf">>, pages |-> pages, readable |-> TRUE]>> :
                  pages \in SeqsUpTo(PageKinds, MaxPages) \ {<<>>}}
    /\ call = NoCall
    /\ result = <<>>
    /\ outcome = "none"

\* the text of the PDF is read and passed to _clean_pdf_content, the first
\* step of generate_smart_summary, extract_key_concepts and analyze_readability
CleanPdfContent ==
    \E OCR_SUPPORT \in BOOLEAN :
        LET content == _read_pdf_file(fs[1].path[Len(fs[1].path)], fs[1].pages, OCR_SUPPORT)
        IN  /\ Idle
            /\ call' = [op |-> "_clean_pdf_content", OCR_SUPPORT |-> OCR_SUPPORT,
                        content |-> content]
            /\ Finish(Returned(_clean_pdf_content(content)))
            /\ UNCHANGED fs

NextPdf == CleanPdfContent \/ Return

SpecPdf == InitPdf /\ [][NextPdf]_vars

\* the text holds a page marker "--- Page N"
HasPageMarker(text) ==
    \E i \in 0..(Len(text) - 1) :
        MatchAt(text, "--- Page ", i) /\ RunEnd(text, i + Len("--- Page "), Digits) > i + Len("--- Page ")

\* C17: after _clean_pdf_content the text of a PDF holds no page marker
\* '--- Page N ... ---', whichever extraction produced it: text extraction, a
\* page that could not be read, an OCR page, a failed OCR page.
C17_NoPageMarkerAfterCleaning ==
    (call.op = "_clean_pdf_content" /\ outcome = "returned") => ~HasPageMarker(result)

(***************************************************************************)
(* Specification SpecExample: the corpus holds only A.md, a text of at     *)
(* most MaxExampleLines lines drawn from the lines of the example          *)
(* document, with or without a final newline; extract_section and          *)
(* search_docs are called on it.                                           *)
(***************************************************************************)

MaxExampleLines == 4

ExampleLines == <<"# Intro", "Hello world.", "# Setup", "Run the installer.">>

ExampleDocs ==
    {Join("\n", ls) \o end : ls \in SeqsUpTo(ToSet(ExampleLines), MaxExampleLines) \ {<<>>},
                             end \in {"", "\n"}}

ExampleTitles == {"Setup", "Intro"}

ExampleQueries == {"installer", "hello"}

\* max_results: int = 10
DefaultMaxResults == 10

InitExample ==
    /\ fs \in {<<[path |-> DOCS_ROOT \o <<"A.md">>, text |-> t, readable |-> TRUE]>> :
                 t \in ExampleDocs}
    /\ call = NoCall
    /\ result = <<>>
    /\ outcome = "none"

\* the tool extract_section on A.md
ExampleExtractSection ==
    \E title \in ExampleTitles, inc \in BOOLEAN :
        /\ Idle
        /\ call' = [op |-> "extract_section", relative_path |-> <<"A.md">>,
                    section_title |-> title, include_subsections |-> inc]
        /\ Finish(extract_section(<<"A.md">>, title, inc))
        /\ UNCHANGED fs

\* the tool search_docs with the default limit
ExampleSearchDocs ==
    \E query \in ExampleQueries :
        /\ Idle
        /\ call' = [op |-> "search_docs", query |-> query, max_results |-> DefaultMaxResults]
        /\ Finish(search_docs(query, DefaultMaxResults))
        /\ UNCHANGED fs

NextExample == ExampleExtractSection \/ ExampleSearchDocs \/ Return

SpecExample == InitExample /\ [][NextExample]_vars

\* the corpus holds only A.md with the four lines of the example
ExampleCorpus ==
    /\ Len(fs) = 1
    /\ RelativeTo(fs[1].path) = "A.md"
    /\ fs[1].text \in {Join("\n", ExampleLines), Join("\n", ExampleLines) \o "\n"}

\* C20: for the corpus holding only A.md with the lines '# Intro',
\* 'Hello world.', '# Setup', 'Run the installer.', extract_section(A.md, 'Setup')
\* returns a single match whose content is exactly 'Run the installer.', and
\* search_docs('installer') returns a match on A.md of type exact_phrase.
C20_ExampleCorpus ==
    ExampleCorpus =>
        /\ (/\ call.op = "extract_section"
            /\ call.section_title = "Setup"
            /\ call.include_subsections) =>
              /\ outcome = "returned"
              /\ "match_type" \in DOMAIN result
              /\ result.match_type = "single"
              /\ result.content = "Run the installer."
        /\ (call.op = "search_docs" /\ call.query = "installer") =>
              /\ outcome = "returned"
              /\ \E i \in 1..Len(result) :
                    result[i].path = "A.md" /\ result[i].match_type = "exact_phrase"

\* search_docs('installer') has answered on the example corpus
C20_Witness ==
    /\ ExampleCorpus
    /\ call.op = "search_docs"
    /\ call.query = "installer"
    /\ outcome = "returned"
    /\ Len(result) = 1

(***************************************************************************)
(* Specification SpecTokens: one document, made of up to MaxPieces pieces  *)
(* of TokenPieces (letters, digits, underscores, whitespace, punctuation   *)
(* and marked-up terms); _extract_words and extract_key_concepts are       *)
(* applied to its text.                                                    *)
(***************************************************************************)

MaxPieces == 3

TokenPieces ==
    {"Alpha", "the", "go", "x", "7", "_", " ", ".", Backtick \o "getName" \o Backtick,
     "**run**"}

TokenTexts == {Join("", ps) : ps \in SeqsUpTo(TokenPieces, MaxPieces)}

\* extract_key_concepts(content, min_frequency=2) and min_frequency=1 of the server's tools
MinFrequencies == {1, 2}

InitTokens ==
    /\ fs \in {MkFs(<<[text |-> t, readable |-> TRUE]>>) : t \in TokenTexts}
    /\ call = NoCall
    /\ result = <<>>
    /\ outcome = "none"

\* doc_intel._extract_words(text) on a document's text
ExtractWords ==
    \E k \in 1..Len(fs) :
        /\ Idle
        /\ call' = [op |-> "_extract_words", text |-> fs[k].text]
        /\ Finish(Returned(_extract_words(fs[k].text)))
        /\ UNCHANGED fs

\* doc_intel.extract_key_concepts(content, min_frequency) on a document's text
ExtractKeyConcepts ==
    \E k \in 1..Len(fs), min_frequency \in MinFrequencies :
        /\ Idle
        /\ call' = [op |-> "extract_key_concepts", content |-> fs[k].text,
                    min_frequency |-> min_frequency]
        /\ Finish(Returned(extract_key_concepts(fs[k].text, min_frequency)))
        /\ UNCHANGED fs

NextTokens == ExtractWords \/ ExtractKeyConcepts \/ Return

SpecTokens == InitTokens /\ [][NextTokens]_vars

\* the maximal runs of letters of text, left to right
AlphabeticRuns(text) ==
    LET Letters == LowerLetters \cup UpperLetters
        starts  == Sorted({i \in 0..(Len(text) - 1) :
                              /\ CharAt(text, i) \in Letters
                              /\ (i = 0 \/ CharAt(text, i - 1) \notin Letters)})
    IN  [k \in 1..Len(starts) |-> Slice(text, starts[k], RunEnd(text, starts[k], Letters))]

\* C21: _extract_words returns, in source order, exactly the lowercased
\* maximal runs of letters of the text that have at least 3 letters and are
\* no stop words.
C21_WordsAreAlphabeticRuns ==
    (call.op = "_extract_words" /\ outcome = "returned") =>
        result = SelectSeq(AlphabeticRuns(Lower(call.text)),
                           LAMBDA run : Len(run) >= 3 /\ run \notin stop_words)

\* the strings that stand between two markers in text, left to right: a marker,
\* a run of characters other than the marker's character, a marker
RECURSIVE DelimitedFrom(_, _, _)
DelimitedFrom(text, marker, i) ==
    LET open == Find(text, marker, i)
        stop == RunEnd(text, open + Len(marker), {CharAt(text, j) : j \in 0..(Len(text) - 1)}
                                                     \ {CharAt(marker, 0)})
    IN  IF open = -1 THEN <<>>
        ELSE IF stop > open + Len(marker) /\ MatchAt(text, marker, stop)
        THEN <<Slice(text, open + Len(marker), stop)>>
                 \o DelimitedFrom(text, marker, stop + Len(marker))
        ELSE DelimitedFrom(text, marker, open + 1)

\* the marker of each type of marked-up concept
MarkerOf(type) == IF type = "technical_term" THEN Backtick ELSE "**"

\* C22: every technical_term and emphasized_term concept returned by
\* extract_key_concepts is a string that stands between inline-code markers,
\* respectively bold markers, in the raw text, and its frequency is the number
\* of times it stands so in the raw text.
C22_MarkedTermsOfRawText ==
    (call.op = "extract_key_concepts" /\ outcome = "returned") =>
        \A k \in 1..Len(result) :
            result[k].type \in {"technical_term", "emphasized_term"} =>
                LET raw == DelimitedFrom(call.content, MarkerOf(result[k].type), 0)
                IN  /\ \E j \in 1..Len(raw) : raw[j] = result[k].concept
                    /\ result[k].frequency = Freq(raw, result[k].concept)

(***************************************************************************)
(* Specification SpecDegenerate: the corpora of up to MaxDegenerateDocs    *)
(* readable documents of WordlessTexts, the empty corpus among them:     *)
(* empty, whitespace-only and wordless documents next to an ordinary one.  *)
(* The search and analytics tools are called, with the queries of          *)
(* RankQueries (the empty and the whitespace-only query among them).       *)
(***************************************************************************)

MaxDegenerateDocs == 2

\* "" and " \n " have no sentence and no word, "12345 67890 123." has a
\* sentence and no word, "alpha" a word and no sentence; the last two are
\* ordinary documents, one of them of low readability
WordlessTexts ==
    {"", " \n ", "12345 67890 123.", "alpha", "alpha beta gamma",
     "# Overview\nAlpha beta gamma delta."}

InitDegenerate ==
    /\ fs \in {MkFs(kinds) : kinds \in SeqsUpTo([text : WordlessTexts, readable : {TRUE}],
                                                 MaxDegenerateDocs)}
    /\ call = NoCall
    /\ result = <<>>
    /\ outcome = "none"

NextDegenerate ==
    \/ RankSearchDocs
    \/ SemanticSearch
    \/ FindRelatedDocuments
    \/ CompareDocuments
    \/ AnalyzeDocumentGaps
    \/ GenerateDocumentationIndex
    \/ Return

SpecDegenerate == InitDegenerate /\ [][NextDegenerate]_vars

\* the divisor of a quotient kept as a fraction is not zero
Divides(q) == q.den > 0

\* C28: no search or analytics operation divides by zero, whatever the corpus
\* (empty, or with empty or whitespace-only documents) and the query (empty or
\* whitespace-only): every call returns, every quotient of a result has a
\* divisor other than zero, and compare_documents gives the size ratio
\* infinity instead of dividing by a second document without words.
C28_NoDivisionByZero ==
    (outcome # "none") =>
        /\ outcome = "returned"
        /\ (call.op = "search_docs") =>
               LET query_lower == Lower(call.query)
                   docs        == _iter_docs
               IN  \A k \in 1..Len(docs) :
                       LET matches == DocMatches(_read_file(docs[k].path).text, query_lower,
                                                 SplitWs(query_lower))
                       IN  \A i \in 1..Len(matches) :
                               /\ Divides(matches[i].score)
                               /\ matches[i].match_type # "exact_phrase" =>
                                      Len(SplitWs(query_lower)) > 0
        /\ (call.op = "semantic_search") =>
               \A i \in 1..Len(result) :
                   /\ Divides(result[i].relevance_score)
                   /\ result[i].relevance_score.num > 0
        /\ (call.op = "find_related_documents") =>
               \A i \in 1..Len(result.related_documents) :
                   LET score == result.related_documents[i].relevance_score
                   IN  score.words > 0 /\ LnTable[score.words + 1] > 0
        /\ (call.op = "compare_documents" /\ "statistics" \in DOMAIN result) =>
               /\ Divides(result.content_similarity.similarity_ratio)
               /\ IF result.statistics.doc2.words > 0
                  THEN result.statistics.size_ratio.den = result.statistics.doc2.words
                  ELSE result.statistics.size_ratio = [num |-> 1, den |-> 0]
        /\ (call.op = "analyze_document_gaps") =>
               Divides(result.coverage_analysis.average_words_per_doc)
        /\ (call.op = "generate_documentation_index") =>
               Divides(result.statistics.avg_cross_references)

\* semantic_search has ranked a corpus that holds a document without words
C28_Witness ==
    /\ call.op = "semantic_search"
    /\ outcome = "returned"
    /\ Len(result) > 0
    /\ \E k \in 1..Len(fs) : Len(SplitWs(fs[k].text)) = 0

\* the documents of the corpus with zero sentences or zero words
DegenerateDocs ==
    LET docs == _iter_docs
        Without(c) == c.sentences = 0 \/ c.words = 0
    IN  {k \in 1..Len(docs) : Without(ReadabilityCounts(_read_file(docs[k].path).text))}

\* C29: analyze_document_gaps lists under low_readability every document with
\* zero sentences or zero words: its readability result is the degenerate
\* "unknown" one, which carries the flesch_score 0; a corpus with such a
\* document gets a readability recommendation.
C29_DegenerateDocsAreLowReadability ==
    (call.op = "analyze_document_gaps" /\ outcome = "returned") =>
        LET docs == _iter_docs
        IN  /\ \A k \in DegenerateDocs :
                   LET readability == analyze_readability(_read_file(docs[k].path).text, {})
                   IN  /\ readability.complexity = "unknown"
                       /\ readability.flesch_score = 0
                       /\ \E i \in 1..Len(result.content_quality.low_readability) :
                              result.content_quality.low_readability[i]
                                  = RelativeTo(docs[k].path)
            /\ DegenerateDocs # {} =>
                   \E i \in 1..Len(result.recommendations) :
                       StartsWith(result.recommendations[i], "Improve readability of: ")

\* analyze_document_gaps has analysed a corpus of a degenerate document and one
\* that is not
C29_Witness ==
    /\ call.op = "analyze_document_gaps"
    /\ outcome = "returned"
    /\ DegenerateDocs # {}
    /\ DegenerateDocs # 1..Len(_iter_docs)

(***************************************************************************)
(* DocsNavigatorClient.answer (agent/client.py). The coroutine is          *)
(* suspended at its awaits: one step runs from the result of an await to   *)
(* the next await or to the return. call holds its locals: the position    *)
(* pc, iteration, messages, the tool_calls of the round and the            *)
(* tool_results gathered so far.                                           *)
(***************************************************************************)

\* max_iterations = 10
max_iterations == 10

TextBlock(text) == [type |-> "text", text |-> text]

ToolUse(id, name) == [type |-> "tool_use", id |-> id, name |-> name]

\* the tools whose call raises (the request is answered with an error or not
\* at all)
FailingTools == {"broken_tool"}

\* response.content of the responses the model gives: no block, text only,
\* one tool call, and text with two tool calls of which the first raises
ModelResponses ==
    {<<>>,
     <<TextBlock("Done.")>>,
     <<TextBlock("See"), TextBlock("d1.md")>>,
     <<ToolUse("t1", "read_doc")>>,
     <<TextBlock("Looking"), ToolUse("t1", "broken_tool"), ToolUse("t2", "search_docs")>>}

InitClient ==
    /\ fs = <<>>
    /\ call = NoCall
    /\ result = <<>>
    /\ outcome = "none"

\* [content.text for content in blocks if content.type == "text"]
TextsOf(blocks) ==
    LET texts == SelectSeq(blocks, LAMBDA content : content.type = "text")
    IN  [i \in 1..Len(texts) |-> texts[i].text]

\* the text blocks of the assistant messages, in order
RECURSIVE AssistantTexts(_)
AssistantTexts(messages) ==
    IF Len(messages) = 0 THEN <<>>
    ELSE (IF messages[1].role = "assistant" THEN TextsOf(messages[1].content) ELSE <<>>)
             \o AssistantTexts(Tail(messages))

\* the return after the loop: what the assistant has said so far
MaxIterationsAnswer(messages) ==
    LET text_content == AssistantTexts(messages)
    IN  IF Len(text_content) > 0 THEN Join("\n", text_content)
        ELSE "[reached max iterations without final response]"

\* the body of the loop over tool_calls with the exception of the tool
\* escaping: no except clause
CallTool_Uncaught(tool_call) ==
    IF tool_call.name \in FailingTools THEN Raised
    ELSE Returned([type |-> "tool_result", tool_use_id |-> tool_call.id,
                   content |-> "content of " \o tool_call.name])

\* the body of the loop over tool_calls: the tool_result of one tool call,
\* the error result when session.call_tool raises
CallTool(tool_call) ==
    IF tool_call.name \in FailingTools
    THEN Returned([type |-> "tool_result", tool_use_id |-> tool_call.id,
                   content |-> "Error calling tool " \o tool_call.name \o ": failed",
                   is_error |-> TRUE])
    ELSE Returned([type |-> "tool_result", tool_use_id |-> tool_call.id,
                   content |-> "content of " \o tool_call.name])

\* answer(user_query) is called: without a session it raises, with one it
\* builds messages and awaits the first response of the model
Answer ==
    \E session \in BOOLEAN :
        /\ Idle
        /\ IF ~session
           THEN /\ call' = [op |-> "answer", session |-> FALSE, pc |-> "done"]
                /\ Finish(Raised)
           ELSE /\ call' = [op |-> "answer", session |-> TRUE, pc |-> "model",
                            iteration |-> 1,
                            messages |-> <<[role |-> "user", content |-> "User question"]>>,
                            tool_calls |-> <<>>, tool_results |-> <<>>]
                /\ UNCHANGED <<result, outcome>>
        /\ UNCHANGED fs

\* anthropic.messages.create returns a response: it is appended; without
\* tool calls the answer is returned, with tool calls the first is awaited
ModelResponds ==
    \E content \in ModelResponses :
        /\ call.op = "answer"
        /\ call.pc = "model"
        /\ LET messages   == Append(call.messages, [role |-> "assistant", content |-> content])
               tool_calls == SelectSeq(content, LAMBDA c : c.type = "tool_use")
               text_content == TextsOf(content)
           IN  IF Len(tool_calls) = 0
               THEN /\ call' = [call EXCEPT !.pc = "done", !.messages = messages]
                    /\ Finish(Returned(IF Len(text_content) > 0
                                       THEN Join("\n", text_content)
                                       ELSE "[no text response from model]"))
               ELSE /\ call' = [call EXCEPT !.pc = "tool", !.messages = messages,
                                            !.tool_calls = tool_calls,
                                            !.tool_results = <<>>]
                    /\ UNCHANGED <<result, outcome>>
        /\ UNCHANGED fs

\* session.call_tool returns or raises: the tool_result is appended; after the
\* last tool call of the round the results are appended to messages, and the
\* model is called again or, after max_iterations rounds, the answer returned
ToolResponds ==
    /\ call.op = "answer"
    /\ call.pc = "tool"
    /\ LET tool_call == call.tool_calls[Len(call.tool_results) + 1]
           called    == CallTool(tool_call)
           tool_results == Append(call.tool_results, called.value)
           messages  == Append(call.messages, [role |-> "user", content |-> tool_results])
       IN  IF called.raised
           THEN /\ call' = [call EXCEPT !.pc = "done"]
                /\ Finish(Raised)
           ELSE IF Len(tool_results) < Len(call.tool_calls)
           THEN /\ call' = [call EXCEPT !.tool_results = tool_results]
                /\ UNCHANGED <<result, outcome>>
           ELSE IF call.iteration < max_iterations
           THEN /\ call' = [call EXCEPT !.pc = "model", !.messages = messages,
                                        !.tool_results = tool_results,
                                        !.iteration = call.iteration + 1]
                /\ UNCHANGED <<result, outcome>>
           ELSE /\ call' = [call EXCEPT !.pc = "done", !.messages = messages,
                                        !.tool_results = tool_results]
                /\ Finish(Returned(MaxIterationsAnswer(messages)))
    /\ UNCHANGED fs

NextClient == Answer \/ ModelResponds \/ ToolResponds

SpecClient == InitClient /\ [][NextClient]_vars

\* every await of answer completes: the model responds and a tool call
\* returns or raises
SpecClientLive == SpecClient /\ WF_vars(ModelResponds) /\ WF_vars(ToolResponds)

\* answer is running or has run, on a connected client
Answering == call.op = "answer" /\ call.session

\* the assistant messages: one for each call of the model
ModelCalls == Cardinality({i \in 1..Len(call.messages) : call.messages[i].role = "assistant"})

\* the tool_use blocks of the message i
ToolUsesAt(i) == SelectSeq(call.messages[i].content, LAMBDA c : c.type = "tool_use")

\* the message i + 1 answers the tool calls of the assistant message i: one
\* tool_result for each tool_use, in order, with its id; the result of a
\* tool that raised is the error result
Answered(i) ==
    /\ i < Len(call.messages)
    /\ call.messages[i + 1].role = "user"
    /\ LET tool_results == call.messages[i + 1].content
           tool_calls   == ToolUsesAt(i)
       IN  /\ Len(tool_results) = Len(tool_calls)
           /\ \A k \in 1..Len(tool_calls) :
                  /\ tool_results[k].type = "tool_result"
                  /\ tool_results[k].tool_use_id = tool_calls[k].id
                  /\ tool_calls[k].name \in FailingTools =>
                         /\ "is_error" \in DOMAIN tool_results[k]
                         /\ tool_results[k].is_error

\* the rounds of the conversation in which the model requested tools
ToolRounds ==
    {i \in 2..Len(call.messages) :
        call.messages[i].role = "assistant" /\ Len(ToolUsesAt(i)) > 0}

ClientSafe ==
    Answering =>
        /\ outcome # "raised"
        /\ ModelCalls <= max_iterations
        /\ call.pc \in {"model", "done"} => \A i \in ToolRounds : Answered(i)
        /\ call.pc = "tool" =>
               \A i \in ToolRounds : i = Len(call.messages) \/ Answered(i)
        /\ outcome = "returned" =>
               LET last == call.messages[Len(call.messages)]
               IN  IF last.role = "assistant"
                   THEN result = (IF Len(TextsOf(last.content)) > 0
                                  THEN Join("\n", TextsOf(last.content))
                                  ELSE "[no text response from model]")
                   ELSE /\ ModelCalls = max_iterations
                        /\ result = MaxIterationsAnswer(call.messages)

\* C30: answer terminates for every sequence of model responses and tool
\* outcomes: it calls the model at most max_iterations times and then returns
\* a string; a tool call that raises is answered with an error tool_result
\* and does not end the loop; every round in which the model requested tools
\* has one tool_result for each tool_use, with its id, before the model is
\* called again.
C30_AnswerTerminates ==
    /\ []ClientSafe
    /\ Answering ~> (outcome = "returned")

\* answer has returned after max_iterations rounds, one of them with a tool
\* call that raised
C30_Witness ==
    /\ Answering
    /\ outcome = "returned"
    /\ ModelCalls = max_iterations
    /\ call.messages[Len(call.messages)].role = "user"
    /\ \E i \in ToolRounds :
           \E k \in 1..Len(ToolUsesAt(i)) : ToolUsesAt(i)[k].name \in FailingTools

====
